---- MODULE Spec2Model ----
(***************************************************************************)
(* Allocation & negotiation engine of Allocation_Fairness.                 *)
(*                                                                         *)
(* Amounts are Python floats in the source.  They are modelled as exact    *)
(* rationals [n |-> numerator, d |-> denominator] (d > 0, lowest terms),   *)
(* so a sum that the source compares "within 1e-6" is compared exactly.    *)
(* Only the resource "grain" is modelled: it is the only key the           *)
(* integerization touches and the only one the simulation uses.            *)
(***************************************************************************)
EXTENDS Integers, Sequences, FiniteSets, TLC

VARIABLES
    agents,                \* list of households: [members, labor_force, value_type]
    total_grain,           \* total_resources["grain"]
    survival_needs,        \* agent id -> survival need of grain
    distribution_result,   \* fractional allocation (before integerization)
    enforce_min_survival,  \* the flag handed to the integerization
    result,                \* allocation returned by the operation
    called,                \* name of the operation that produced result
    current_stage,         \* CollaborativeNegotiation.current_stage
    stage_trace,           \* the values current_stage was set to by the stages, in order
    stage_results,         \* keys of CollaborativeNegotiation.stage_results, in order
    pc,                    \* the call run_collaborative_negotiation makes next
    outcome,               \* "none", "success" or "fallback" (negotiation_data)
    principle_preferences, \* local of _establish_principles: what each agent answered
    principles,            \* stage_results["principles"]: name -> status
    framework,             \* stage_results["framework"]
    detailed_proposal,     \* stage_results["detailed_proposal"]
    unsatisfied,           \* local of _finalize_proposal: ids with level < 3 in round 1
    satisfaction_rounds,   \* number of calls of _collect_final_confirmation
    last_feedback_mean,    \* mean level of the last confirmation round collected
    final_average_satisfaction, \* the attribute of that name: <<value>>, << >> if unset
    exception_forced,      \* the except-branch was entered by an exception forced on a stage
    oracle_calls,          \* number of calls of client.chat.completions.create so far
    oracle_failures,       \* number of those calls that failed
    conflict_flagged,      \* _finalize_proposal took its majority branch (message, log_conflict)
    adjustment_proposals,  \* local of _finalize_proposal: proposer id -> [current_amount, target_amount]
    distribution,          \* argument of calculate_gini_coefficient
    gini,                  \* what calculate_gini_coefficient returned: <<value>>, << >> before the call
    family_reports,        \* agent id -> the need report the family filed
    allocation_opinions,   \* agent id -> opinion on the initial allocation (argument of the mediation)
    family_resources,      \* SimulationRunner.family_resources: agent id -> << >> or <<grain>>
    family_productions,    \* SimulationRunner.family_productions: agent id -> << >> or <<grain>>
    previous_total,        \* ResourceGenerator.previous_total
    overuse_warning,       \* ResourceGenerator.overuse_warning
    distribution_results   \* SimulationRunner.distribution_results: one round_result per run

\* variables of the negotiation session
svars == <<current_stage, stage_trace, stage_results, pc, outcome, principle_preferences,
           principles, framework, detailed_proposal, unsatisfied, satisfaction_rounds,
           last_feedback_mean, final_average_satisfaction, exception_forced,
           oracle_calls, oracle_failures, conflict_flagged,
                   adjustment_proposals>>

vars == <<agents, total_grain, survival_needs, distribution_result,
          enforce_min_survival, result, called, current_stage, stage_trace,
          stage_results, pc, outcome, principle_preferences, principles, framework,
          detailed_proposal, unsatisfied, satisfaction_rounds, last_feedback_mean,
          final_average_satisfaction, exception_forced, oracle_calls, oracle_failures,
          conflict_flagged, adjustment_proposals,
          distribution, gini, family_reports, allocation_opinions,
          family_resources, family_productions, previous_total, overuse_warning,
          distribution_results>>

\* variables of the evaluation, of the need reports, of the mediation and of
\* the simulation runner
evars == <<distribution, gini, family_reports, allocation_opinions,
           family_resources, family_productions, previous_total, overuse_warning,
           distribution_results>>

\* no session is running (the library is called directly)
SessionIdle ==
    /\ current_stage = "principles"
    /\ stage_trace = << >>
    /\ stage_results = << >>
    /\ pc = "idle"
    /\ outcome = "none"
    /\ principle_preferences = << >>
    /\ principles = << >>
    /\ framework = << >>
    /\ detailed_proposal = << >>
    /\ unsatisfied = {}
    /\ satisfaction_rounds = 0
    /\ last_feedback_mean = [n |-> 0, d |-> 1]
    /\ final_average_satisfaction = << >>
    /\ exception_forced = FALSE
    /\ oracle_calls = 0
    /\ oracle_failures = 0
    /\ conflict_flagged = FALSE
    /\ adjustment_proposals = << >>

\* no evaluation is running and no need report was filed
EvaluationIdle ==
    /\ distribution = << >>
    /\ gini = << >>
    /\ family_reports = << >>
    /\ allocation_opinions = << >>
    /\ family_resources = << >>
    /\ family_productions = << >>
    /\ previous_total = [n |-> 0, d |-> 1]
    /\ overuse_warning = FALSE
    /\ distribution_results = << >>

----------------------------------------------------------------------------
(* Bounds of the model.                                                    *)

MaxAgents == 2
MaxQuarters == 8
MaxNeedHalves == 3

----------------------------------------------------------------------------
(* Exact rational arithmetic standing for Python float arithmetic.         *)

Abs(x) == IF x < 0 THEN -x ELSE x

RECURSIVE GCD(_, _)
GCD(a, b) == IF b = 0 THEN a ELSE GCD(b, a % b)

Rat(n, d) ==
    LET s == IF d < 0 THEN -1 ELSE 1
        g == GCD(Abs(n), Abs(d))
    IN  [n |-> (s * n) \div g, d |-> (s * d) \div g]

Int2Rat(i) == [n |-> i, d |-> 1]
Zero == Int2Rat(0)

\* The operations cancel common factors first, to keep the integers small.
RAdd(a, b) ==
    IF a.d = b.d
    THEN IF a.d = 1 THEN [n |-> a.n + b.n, d |-> 1] ELSE Rat(a.n + b.n, a.d)
    ELSE LET g == GCD(a.d, b.d)
         IN  Rat(a.n * (b.d \div g) + b.n * (a.d \div g), (a.d \div g) * b.d)
RNeg(a) == [n |-> -a.n, d |-> a.d]
RSub(a, b) == RAdd(a, RNeg(b))
RMul(a, b) ==
    LET g1 == GCD(Abs(a.n), b.d)
        g2 == GCD(Abs(b.n), a.d)
    IN  Rat((a.n \div g1) * (b.n \div g2), (a.d \div g2) * (b.d \div g1))
RDiv(a, b) == RMul(a, IF b.n < 0 THEN [n |-> -b.d, d |-> -b.n] ELSE [n |-> b.d, d |-> b.n])
RLt(a, b) ==
    IF a.d = b.d THEN a.n < b.n
    ELSE LET g == GCD(a.d, b.d)
         IN  a.n * (b.d \div g) < b.n * (a.d \div g)
RLe(a, b) == ~RLt(b, a)
RMin(a, b) == IF RLt(b, a) THEN b ELSE a
RMax(a, b) == IF RLt(a, b) THEN b ELSE a
IsWhole(a) == a.d = 1

\* math.floor, math.ceil
Floor(a) == a.n \div a.d
Ceil(a) == -((-a.n) \div a.d)

\* Python 3 round(): round half to even
Round(a) ==
    LET f == Floor(a)
        twice == 2 * (a.n - f * a.d)
    IN  IF twice < a.d THEN f
        ELSE IF twice > a.d THEN f + 1
        ELSE IF f % 2 = 0 THEN f ELSE f + 1

RECURSIVE SumInt(_, _)
SumInt(f, S) ==
    IF S = {} THEN 0
    ELSE LET x == CHOOSE y \in S : TRUE IN f[x] + SumInt(f, S \ {x})

RECURSIVE SumRat(_, _)
SumRat(f, S) ==
    IF S = {} THEN Zero
    ELSE LET x == CHOOSE y \in S : TRUE IN RAdd(f[x], SumRat(f, S \ {x}))

Ids(ags) == 1 .. Len(ags)

----------------------------------------------------------------------------
(* Integerization: largest remainder with an optional survival floor.      *)

\* A variant that keeps the order of the agent list.
SortedByAgentOrder(ids, frac, descending) == [k \in 1 .. Cardinality(ids) |-> k]

\* sorted(agent_ids, key=frac, reverse=descending): Python's sort is stable,
\* also with reverse=True, so ties keep the order of the agent list.
SortedByFrac(ids, frac, descending) ==
    LET Before(a, b) ==
            \/ IF descending THEN RLt(frac[b], frac[a]) ELSE RLt(frac[a], frac[b])
            \/ frac[a] = frac[b] /\ a < b
        Rank(a) == Cardinality({b \in ids : Before(b, a)}) + 1
    IN  [k \in 1 .. Cardinality(ids) |-> CHOOSE a \in ids : Rank(a) = k]

\* base = floor(v), frac = v - base
FloorBase(ids, real) == [a \in ids |-> Floor(real[a])]
FracPart(ids, real) == [a \in ids |-> [n |-> real[a].n % real[a].d, d |-> real[a].d]]

\* survival_needs.get(aid, {}).get("grain", 0.0)
NeedOf(needs, a) == IF a \in DOMAIN needs THEN needs[a] ELSE Zero

\* min_need[aid] = int(ceil(need)) if need > 0 else 0 when the floor is on
MinNeed(ids, needs, enforce) ==
    [a \in ids |->
        IF enforce
        THEN IF RLt(Zero, NeedOf(needs, a)) THEN Ceil(NeedOf(needs, a)) ELSE 0
        ELSE 0]

\* "apply min floor": base raised to min_need, its fraction cleared
ApplyMinFloor(ids, base, frac, min_need) ==
    [base |-> [a \in ids |-> IF base[a] < min_need[a] THEN min_need[a] ELSE base[a]],
     frac |-> [a \in ids |-> IF base[a] < min_need[a] THEN Zero ELSE frac[a]]]

\* while need > 0 and i < len(order): base[order[i]] += 1; need -= 1; i += 1
RECURSIVE IncrementPass(_, _, _, _)
IncrementPass(base, order, i, need) ==
    IF need > 0 /\ i <= Len(order)
    THEN IncrementPass([base EXCEPT ![order[i]] = @ + 1], order, i + 1, need - 1)
    ELSE base

\* DecrementPass without its "base[aid] > min_need[aid]" guard
RECURSIVE DecrementPassNoGuard(_, _, _, _, _)
DecrementPassNoGuard(base, min_need, order, i, excess) ==
    IF excess > 0 /\ i <= Len(order)
    THEN DecrementPassNoGuard([base EXCEPT ![order[i]] = @ - 1],
                              min_need, order, i + 1, excess - 1)
    ELSE base

\* while excess > 0 and i < len(order):
\*     if base[aid] > min_need[aid]: base[aid] -= 1; excess -= 1
\*     i += 1
\* One pass over the agents: each is decremented at most once.
RECURSIVE DecrementPass(_, _, _, _, _)
DecrementPass(base, min_need, order, i, excess) ==
    IF excess > 0 /\ i <= Len(order)
    THEN IF base[order[i]] > min_need[order[i]]
         THEN DecrementPass([base EXCEPT ![order[i]] = @ - 1],
                            min_need, order, i + 1, excess - 1)
         ELSE DecrementPass(base, min_need, order, i + 1, excess)
    ELSE base

\* The body shared by integerize_distribution and _integerize_allocation.
LargestRemainder(ids, real, min_need) ==
    LET fl == ApplyMinFloor(ids, FloorBase(ids, real), FracPart(ids, real), min_need)
        base == fl.base
        frac == fl.frac
        target == Round(SumRat(real, ids))
        base_sum == SumInt(base, ids)
        final ==
            IF base_sum < target
            THEN IncrementPass(base, SortedByFrac(ids, frac, TRUE), 1, target - base_sum)
            ELSE IF base_sum > target
            THEN DecrementPass(base, min_need, SortedByFrac(ids, frac, FALSE), 1,
                               base_sum - target)
            ELSE base
    IN  [a \in ids |-> Int2Rat(final[a])]

\* distribution_mechanisms.integerize_distribution
\* ("if not agents or not distribution_result: return distribution_result";
\*  the floor needs both the flag and a non-empty survival_needs map)
integerize_distribution(ags, dist, needs, enforce) ==
    IF Len(ags) = 0 \/ DOMAIN dist = {}
    THEN dist
    ELSE LargestRemainder(Ids(ags), dist,
                          MinNeed(Ids(ags), needs, enforce /\ DOMAIN needs # {}))

\* CollaborativeNegotiation._integerize_allocation
integerize_allocation(ags, allocation, needs, enforce) ==
    LargestRemainder(Ids(ags), allocation, MinNeed(Ids(ags), needs, enforce))

----------------------------------------------------------------------------
(* Allocation strategy library (distribution_mechanisms.py).  Each strategy *)
(* is split into the fractional allocation it builds and the call that     *)
(* integerizes it.                                                         *)

NoNeeds == << >>

TotalMembers(ags) == SumInt([a \in Ids(ags) |-> ags[a].members], Ids(ags))
TotalLabor(ags) == SumInt([a \in Ids(ags) |-> ags[a].labor_force], Ids(ags))

\* survival_needs.calculate_survival_needs: labor*2 + non_labor*1
calculate_survival_needs(members, labor_force) ==
    Int2Rat(labor_force * 2 + (members - labor_force) * 1)

\* equal_distribution: per_family_amount = resource_amount / num_families
\* A variant of the equal split that weighs the pool by household size.
EqualFractionalByMembers(total, ags) ==
    IF Len(ags) = 0 THEN << >>
    ELSE [a \in Ids(ags) |->
            RMul(total, Rat(ags[a].members, TotalMembers(ags)))]

EqualFractional(total, ags) ==
    IF Len(ags) = 0 THEN << >>
    ELSE [a \in Ids(ags) |-> RDiv(total, Int2Rat(Len(ags)))]

equal_distribution(total, ags) ==
    IF Len(ags) = 0 THEN << >>
    ELSE integerize_distribution(ags, EqualFractional(total, ags), NoNeeds, FALSE)

\* needs_based_distribution, phases 1 and 2: 70% by population share, 30% by
\* the 50/30/20 weights (population, labor force, special need).
SpecialNeedWeight(ag) ==
    LET labor_density == IF ag.members > 0 THEN Rat(ag.labor_force, ag.members) ELSE Zero
    IN  IF RLt(labor_density, Rat(1, 2))
        THEN RMul(RSub(Rat(1, 2), labor_density), Int2Rat(2))
        ELSE Zero

LaborShare(ags, a) ==
    IF TotalLabor(ags) > 0
    THEN RMul(Rat(ags[a].labor_force, TotalLabor(ags)), Rat(3, 10))
    ELSE Zero

NeedsBasedShares(total, ags) ==
    LET ids == Ids(ags)
        total_members == TotalMembers(ags)
        basic_resource_pool == RMul(total, Rat(7, 10))
        remaining_resource_pool == RMul(total, Rat(3, 10))
        total_special_need_weight == SumRat([a \in ids |-> SpecialNeedWeight(ags[a])], ids)
        basic(a) ==
            IF total_members > 0
            THEN RMul(basic_resource_pool, Rat(ags[a].members, total_members))
            ELSE Zero
        population_share(a) ==
            IF total_members > 0
            THEN RMul(Rat(ags[a].members, total_members), Rat(1, 2))
            ELSE Zero
        special_share(a) ==
            IF RLt(Zero, total_special_need_weight)
            THEN RMul(RDiv(SpecialNeedWeight(ags[a]), total_special_need_weight), Rat(1, 5))
            ELSE Zero
        total_share(a) == RAdd(RAdd(population_share(a), LaborShare(ags, a)), special_share(a))
    IN  [a \in ids |-> RAdd(basic(a), RMul(remaining_resource_pool, total_share(a)))]

\* needs_based_distribution, phase 3: per-capita floor of 3.5.  Shortages and
\* donors are both read from the allocation as it stands before the transfer.
PerCapitaFloor(total, ags, dist) ==
    LET ids == Ids(ags)
        min_per_capita == Rat(7, 2)
        per_capita(a) == IF ags[a].members > 0
                         THEN RDiv(dist[a], Int2Rat(ags[a].members)) ELSE Zero
        short == {a \in ids : RLt(per_capita(a), min_per_capita)}
        shortage == [a \in ids |->
                        RMul(RSub(min_per_capita, per_capita(a)), Int2Rat(ags[a].members))]
        total_shortage == SumRat(shortage, short)
        avg_per_capita == RDiv(total, Int2Rat(TotalMembers(ags)))
        donors == {a \in ids : RLt(avg_per_capita, per_capita(a))}
        surplus == [a \in ids |->
                        RMul(RMul(RSub(per_capita(a), avg_per_capita),
                                  Int2Rat(ags[a].members)), Rat(3, 10))]
        total_surplus == SumRat(surplus, donors)
        moved == RMin(total_surplus, total_shortage)
        compensation(a) ==
            IF a \in short THEN RMul(RDiv(shortage[a], total_shortage), moved) ELSE Zero
        deduction(a) ==
            IF a \in donors THEN RMul(RDiv(surplus[a], total_surplus), moved) ELSE Zero
    IN  IF short = {} \/ ~RLt(Zero, total_surplus) THEN dist
        ELSE [a \in ids |-> RSub(RAdd(dist[a], compensation(a)), deduction(a))]

NeedsBasedFractional(total, ags, needs) ==
    IF Len(ags) = 0 \/ DOMAIN needs = {} THEN << >>
    ELSE PerCapitaFloor(total, ags, NeedsBasedShares(total, ags))

needs_based_distribution(total, ags, needs) ==
    IF Len(ags) = 0 \/ DOMAIN needs = {} THEN << >>
    ELSE integerize_distribution(ags, NeedsBasedFractional(total, ags, needs), needs, TRUE)

\* contribution_based_distribution: survival need first, the rest of the pool
\* by labor-force share; without any labor force it is the equal distribution.
ContributionShares(total, ags, needs) ==
    LET ids == Ids(ags)
        total_labor_force == TotalLabor(ags)
        survival_resources_total == SumRat(needs, DOMAIN needs)
        distributable_resources == RMax(Zero, RSub(total, survival_resources_total))
    IN  [a \in ids |->
            RAdd(NeedOf(needs, a),
                 IF total_labor_force > 0
                 THEN RMul(Rat(ags[a].labor_force, total_labor_force),
                           distributable_resources)
                 ELSE Zero)]

ContributionFractional(total, ags, needs) ==
    IF Len(ags) = 0 THEN << >>
    ELSE IF TotalLabor(ags) = 0 THEN EqualFractional(total, ags)
    ELSE ContributionShares(total, ags, needs)

\* contribution_based_distribution without its "total_labor_force == 0" branch
contribution_based_no_equal_fallback(total, ags, needs) ==
    IF Len(ags) = 0 THEN << >>
    ELSE integerize_distribution(ags, ContributionShares(total, ags, needs), needs, FALSE)

contribution_based_distribution(total, ags, needs) ==
    IF Len(ags) = 0 THEN << >>
    ELSE IF TotalLabor(ags) = 0 THEN equal_distribution(total, ags)
    ELSE integerize_distribution(ags, ContributionShares(total, ags, needs), needs, FALSE)

\* altruistic_distribution.  float('inf') and the nan that inf / inf produces
\* are values of the source; they are written with denominator 0.
Inf == [n |-> 1, d |-> 0]
NaN == [n |-> 0, d |-> 0]
IsInf(x) == x.d = 0 /\ x.n # 0
IsNaN(x) == x.d = 0 /\ x.n = 0

\* members / labor_force if labor_force > 0 else float('inf')
DependencyRatio(ag) == IF ag.labor_force > 0 THEN Rat(ag.members, ag.labor_force) ELSE Inf

\* sorted(agents, key=dependency ratio, reverse=True), stable
SortedByDependency(ags) ==
    LET ids == Ids(ags)
        r(a) == DependencyRatio(ags[a])
        Greater(x, y) == IF IsInf(y) THEN FALSE ELSE IF IsInf(x) THEN TRUE ELSE RLt(y, x)
        Before(a, b) == Greater(r(a), r(b)) \/ (r(a) = r(b) /\ a < b)
        Rank(a) == Cardinality({b \in ids : Before(b, a)}) + 1
    IN  [k \in 1 .. Len(ags) |-> CHOOSE a \in ids : Rank(a) = k]

\* first loop: allocated = min(survival_need, remaining); remaining -= allocated
RECURSIVE AltruisticSurvival(_, _, _, _, _)
AltruisticSurvival(needs, order, k, alloc, remaining) ==
    IF k > Len(order) THEN [alloc |-> alloc, remaining |-> remaining]
    ELSE LET allocated == RMin(NeedOf(needs, order[k]), remaining)
         IN  AltruisticSurvival(needs, order, k + 1,
                                [alloc EXCEPT ![order[k]] = allocated],
                                RSub(remaining, allocated))

\* remaining_amount * (dependency_ratio / sum(dependency_ratios.values())),
\* then min(additional_share, remaining_amount); min(nan, x) is nan.
AdditionalShare(ags, a, remaining) ==
    LET ids == Ids(ags)
        ratio == DependencyRatio(ags[a])
        any_inf == \E b \in ids : IsInf(DependencyRatio(ags[b]))
        sum_ratios == SumRat([b \in ids |-> DependencyRatio(ags[b])], ids)
    IN  IF IsNaN(remaining) THEN NaN
        ELSE IF any_inf THEN (IF IsInf(ratio) THEN NaN ELSE RMin(Zero, remaining))
        ELSE RMin(RMul(remaining, RDiv(ratio, sum_ratios)), remaining)

\* second loop: skipped while remaining_amount <= 0 (false for nan)
RECURSIVE AltruisticAdditional(_, _, _, _, _)
AltruisticAdditional(ags, order, k, alloc, remaining) ==
    IF k > Len(order) THEN alloc
    ELSE IF ~IsNaN(remaining) /\ RLe(remaining, Zero)
    THEN AltruisticAdditional(ags, order, k + 1, alloc, remaining)
    ELSE LET share == AdditionalShare(ags, order[k], remaining)
         IN  IF IsNaN(share)
             THEN AltruisticAdditional(ags, order, k + 1,
                                       [alloc EXCEPT ![order[k]] = NaN], NaN)
             ELSE AltruisticAdditional(ags, order, k + 1,
                                       [alloc EXCEPT ![order[k]] = RAdd(@, share)],
                                       RSub(remaining, share))

altruistic_distribution(total, ags, needs) ==
    LET order == SortedByDependency(ags)
        first == AltruisticSurvival(needs, order, 1, [a \in Ids(ags) |-> Zero], total)
    IN  AltruisticAdditional(ags, order, 1, first.alloc, first.remaining)

----------------------------------------------------------------------------
(* Specification for the integerization: the inputs are drawn by the       *)
(* initial state, the two entry points are the actions.                    *)

Quarter(k) == Rat(k, 4)
Half(k) == Rat(k, 2)

PlaceholderAgent == [members |-> 1, labor_force |-> 1, value_type |-> "pragmatic"]

InitInteger ==
    /\ \E n \in 1 .. MaxAgents :
        /\ agents = [i \in 1 .. n |-> PlaceholderAgent]
        /\ distribution_result \in [1 .. n -> {Quarter(k) : k \in 0 .. MaxQuarters}]
        /\ survival_needs \in [1 .. n -> {Half(k) : k \in 0 .. MaxNeedHalves}]
    /\ enforce_min_survival \in BOOLEAN
    /\ total_grain = Zero
    /\ result = << >>
    /\ called = "none"
    /\ SessionIdle
    /\ EvaluationIdle

CallIntegerizeDistribution ==
    /\ called = "none"
    /\ result' = integerize_distribution(agents, distribution_result, survival_needs,
                                         enforce_min_survival)
    /\ called' = "integerize_distribution"
    /\ UNCHANGED <<agents, total_grain, survival_needs, distribution_result,
                   enforce_min_survival>>
    /\ UNCHANGED svars
    /\ UNCHANGED evars

CallIntegerizeAllocation ==
    /\ called = "none"
    /\ result' = integerize_allocation(agents, distribution_result, survival_needs,
                                       enforce_min_survival)
    /\ called' = "_integerize_allocation"
    /\ UNCHANGED <<agents, total_grain, survival_needs, distribution_result,
                   enforce_min_survival>>
    /\ UNCHANGED svars
    /\ UNCHANGED evars

NextInteger == CallIntegerizeDistribution \/ CallIntegerizeAllocation

SpecInteger == InitInteger /\ [][NextInteger]_vars

----------------------------------------------------------------------------
(* Claims about the integerization (SpecInteger).                          *)

Integerized == called \in {"integerize_distribution", "_integerize_allocation"}

SumCeilNeeds == SumInt([a \in Ids(agents) |-> Ceil(survival_needs[a])], Ids(agents))
TargetTotal == Round(SumRat(distribution_result, Ids(agents)))
ResultTotal == SumRat(result, Ids(agents))

\* C1: whenever the sum of ceil(survival_need_i) is at most round(sum of the
\* input), the integerized amounts are whole and sum to round(sum of the input).
C1_IntegerConservation ==
    (Integerized /\ SumCeilNeeds <= TargetTotal)
        => /\ \A a \in Ids(agents) : IsWhole(result[a])
           /\ ResultTotal = Int2Rat(TargetTotal)

\* C2: with the survival floor enabled no output amount is below
\* ceil(survival_need_i), also when the floors add up to more than the target
\* (the total then exceeds the target).
C2_FloorMonotonicity ==
    (Integerized /\ enforce_min_survival)
        => /\ \A a \in Ids(agents) : RLe(Int2Rat(Ceil(survival_needs[a])), result[a])
           /\ (SumCeilNeeds > TargetTotal => RLt(Int2Rat(TargetTotal), ResultTotal))

\* C2 witness: the floor is on, the floors exceed the rounded total, an agent
\* was lifted to its floor and another one was decremented towards its own.
C2_Witness ==
    /\ Integerized /\ enforce_min_survival
    /\ SumCeilNeeds > TargetTotal
    /\ \E a \in Ids(agents) : Floor(distribution_result[a]) < Ceil(survival_needs[a])
    /\ \E a \in Ids(agents) : RLt(result[a], Int2Rat(Floor(distribution_result[a])))

----------------------------------------------------------------------------
(* Specification for the strategy library: the initial state draws the     *)
(* agent set, the pool and the survival-need map; each strategy is an      *)
(* action.  distribution_result keeps the allocation before integerization. *)

MaxMembers == 2
MaxPool == 6
MaxNeed == 2

Households == {[members |-> m, labor_force |-> l, value_type |-> "pragmatic"] :
                  m \in 1 .. MaxMembers, l \in 0 .. MaxMembers}

ValidHouseholds == {h \in Households : h.labor_force <= h.members}

InitStrategy ==
    /\ \E n \in 1 .. MaxAgents :
        /\ agents \in [1 .. n -> ValidHouseholds]
        /\ \/ \E k \in 0 .. MaxNeed : survival_needs = [a \in 1 .. n |-> Int2Rat(k)]
           \/ survival_needs =
                [a \in 1 .. n |->
                    calculate_survival_needs(agents[a].members, agents[a].labor_force)]
           \/ survival_needs = NoNeeds
    /\ total_grain \in {Int2Rat(k) : k \in 0 .. MaxPool}
    /\ enforce_min_survival = FALSE
    /\ distribution_result = << >>
    /\ result = << >>
    /\ called = "none"
    /\ SessionIdle
    /\ EvaluationIdle

CallEqual ==
    /\ called = "none"
    /\ distribution_result' = EqualFractional(total_grain, agents)
    /\ result' = equal_distribution(total_grain, agents)
    /\ enforce_min_survival' = FALSE
    /\ called' = "equal_distribution"
    /\ UNCHANGED <<agents, total_grain, survival_needs>>
    /\ UNCHANGED svars
    /\ UNCHANGED evars

CallNeedsBased ==
    /\ called = "none"
    /\ distribution_result' = NeedsBasedFractional(total_grain, agents, survival_needs)
    /\ result' = needs_based_distribution(total_grain, agents, survival_needs)
    /\ enforce_min_survival' = TRUE
    /\ called' = "needs_based_distribution"
    /\ UNCHANGED <<agents, total_grain, survival_needs>>
    /\ UNCHANGED svars
    /\ UNCHANGED evars

CallContributionBased ==
    /\ called = "none"
    /\ distribution_result' = ContributionFractional(total_grain, agents, survival_needs)
    /\ result' = contribution_based_distribution(total_grain, agents, survival_needs)
    /\ enforce_min_survival' = FALSE
    /\ called' = "contribution_based_distribution"
    /\ UNCHANGED <<agents, total_grain, survival_needs>>
    /\ UNCHANGED svars
    /\ UNCHANGED evars

CallAltruistic ==
    /\ called = "none"
    /\ distribution_result' = altruistic_distribution(total_grain, agents, survival_needs)
    /\ result' = distribution_result'
    /\ enforce_min_survival' = FALSE
    /\ called' = "altruistic_distribution"
    /\ UNCHANGED <<agents, total_grain, survival_needs>>
    /\ UNCHANGED svars
    /\ UNCHANGED evars

\* Equal and ContributionBased (which falls back on Equal)
NextStrategy == CallEqual \/ CallContributionBased

SpecStrategy == InitStrategy /\ [][NextStrategy]_vars

\* NeedsBased
NextNeedsBased == CallNeedsBased

SpecNeedsBased == InitStrategy /\ [][NextNeedsBased]_vars

\* Altruistic
NextAltruistic == CallAltruistic

SpecAltruistic == InitStrategy /\ [][NextAltruistic]_vars

\* sum of an allocation; nan as soon as one entry is nan
AllocTotal(alloc) ==
    IF \E a \in DOMAIN alloc : IsNaN(alloc[a]) THEN NaN
    ELSE SumRat(alloc, DOMAIN alloc)

----------------------------------------------------------------------------
(* Claims about the strategy library.                                      *)

\* C7: the fractional allocation NeedsBased builds before integerization
\* sums to the pool for every agent set and every pool.
C7_NeedsBasedConservation ==
    (called = "needs_based_distribution" /\ DOMAIN survival_needs # {})
        => AllocTotal(distribution_result) = total_grain

\* C8: the fractional allocation ContributionBased builds sums to the pool
\* whenever the total labor force is positive, also when the survival needs
\* add up to more than the pool.
C8_ContributionConservation ==
    (called = "contribution_based_distribution" /\ TotalLabor(agents) > 0)
        => AllocTotal(distribution_result) = total_grain

\* C9: the allocation Altruistic returns sums to the pool for every agent
\* set and every pool, also with an agent without labor force.
C9_AltruisticConservation ==
    called = "altruistic_distribution" => AllocTotal(result) = total_grain

\* C10: when every agent has labor_force = 0, ContributionBased returns the
\* allocation Equal returns, whatever the survival needs are.
C10_DegenerateContribution ==
    (called = "contribution_based_distribution" /\ TotalLabor(agents) = 0)
        => /\ result = equal_distribution(total_grain, agents)
           /\ \A a \in Ids(agents) :
                 result[a] \in {Int2Rat(Floor(RDiv(total_grain, Int2Rat(Len(agents))))),
                                Int2Rat(Ceil(RDiv(total_grain, Int2Rat(Len(agents)))))}

\* C10 witness: several agents, none with labor force, unequal positive
\* survival needs and a positive pool went through ContributionBased.
C10_Witness ==
    /\ called = "contribution_based_distribution" /\ TotalLabor(agents) = 0
    /\ Len(agents) >= 2 /\ RLt(Zero, total_grain)
    /\ \E a, b \in DOMAIN survival_needs :
          RLt(Zero, survival_needs[a]) /\ survival_needs[a] # survival_needs[b]
    /\ result = equal_distribution(total_grain, agents)

\* C18: the grain amounts integerize_distribution returns sum to
\* round(total_resources["grain"]), also when the fractional allocation it is
\* given does not sum to the pool.  needs_based_distribution hands it the pool
\* as total_resources and the fractional allocation it built.
C18_IntegerizedTotalIsRoundedPool ==
    (called = "needs_based_distribution" /\ result # << >>)
        => AllocTotal(result) = Int2Rat(Round(total_grain))

----------------------------------------------------------------------------
(* Evaluation (evaluation_system.py): the Gini coefficient.                *)
(*                                                                         *)
(* The function divides twice and subtracts once, in IEEE-754 doubles.     *)
(* A double is modelled exactly as [r, u]: the value is r + u * 2^-55,     *)
(* where r is the real quotient and u * 2^-55 the rounding error of the    *)
(* division (|u * 2^-55| is at most half a unit in the last place).  With  *)
(* the amounts and lengths bounded, r has a small denominator, so two      *)
(* doubles are equal exactly when their r and their u are equal.           *)

MaxListLen == 3
MaxAmount == 3

\* a * 2^s mod b
RECURSIVE MulPow2Mod(_, _, _)
MulPow2Mod(a, s, b) ==
    IF s = 0 THEN a % b ELSE MulPow2Mod((2 * a) % b, s - 1, b)

\* a / b for whole a >= 0, b > 0 with 1/8 <= a/b < 16: round to nearest with a
\* 53-bit significand.  With 2^e <= a/b < 2^(e+1) the last place is
\* 2^(e-52) = 2^(e+3) * 2^-55; t / b is the part of a/b below the last place.
\* A tie (2t = b) cannot occur: it would need a significand of 54 bits.
FloatDiv(a, b) ==
    IF a = 0 THEN [r |-> Zero, u |-> Zero]
    ELSE LET Pow2(k) == IF k <= 0 THEN 1 ELSE 2 ^ k
             g == GCD(a, b)
             p == a \div g
             q == b \div g
             e == CHOOSE k \in -3 .. 3 :
                     /\ q * Pow2(k) <= p * Pow2(-k)
                     /\ p * Pow2(-k) < 2 * q * Pow2(k)
             t == MulPow2Mod(p, 52 - e, q)
         IN  [r |-> Rat(p, q),
              u |-> IF 2 * t < q THEN Rat(-(t * Pow2(e + 3)), q)
                                 ELSE Rat((q - t) * Pow2(e + 3), q)]

\* x - y for doubles with y/2 <= x <= 2y: the difference is a double itself,
\* the subtraction does not round.
FloatSub(x, y) == [r |-> RSub(x.r, y.r), u |-> RSub(x.u, y.u)]

\* sorted(distribution)
RECURSIVE sorted(_)
sorted(seq) ==
    IF Len(seq) <= 1 THEN seq
    ELSE LET rest == sorted(Tail(seq))
             k == Cardinality({i \in 1 .. Len(rest) : rest[i] < Head(seq)})
         IN  SubSeq(rest, 1, k) \o <<Head(seq)>> \o SubSeq(rest, k + 1, Len(rest))

\* The same computation on the list as given, without sorting it.
calculate_gini_unsorted(dist) ==
    IF Len(dist) = 0 \/ SumInt(dist, DOMAIN dist) = 0 THEN [r |-> Zero, u |-> Zero]
    ELSE LET n == Len(dist)
             numerator == SumInt([i \in 1 .. n |-> i * dist[i]], 1 .. n)
             denominator == SumInt(dist, 1 .. n) * n
         IN  FloatSub(FloatDiv(2 * numerator, denominator), FloatDiv(n + 1, n))

\* calculate_gini_coefficient for whole amounts: 2 * numerator and
\* denominator are whole and exact, (2 * numerator / denominator) lies
\* between (n + 1) / n and 2, so the final subtraction is exact.
calculate_gini_coefficient(dist) ==
    IF Len(dist) = 0 \/ SumInt(dist, DOMAIN dist) = 0 THEN [r |-> Zero, u |-> Zero]
    ELSE LET sorted_dist == sorted(dist)
             n == Len(sorted_dist)
             numerator == SumInt([i \in 1 .. n |-> i * sorted_dist[i]], 1 .. n)
             denominator == SumInt(sorted_dist, 1 .. n) * n
         IN  FloatSub(FloatDiv(2 * numerator, denominator), FloatDiv(n + 1, n))

InitGini ==
    /\ \E n \in 0 .. MaxListLen : distribution \in [1 .. n -> 0 .. MaxAmount]
    /\ gini = << >>
    /\ family_reports = << >>
    /\ allocation_opinions = << >>
    /\ family_resources = << >>
    /\ family_productions = << >>
    /\ previous_total = Zero
    /\ overuse_warning = FALSE
    /\ distribution_results = << >>
    /\ agents = << >>
    /\ total_grain = Zero
    /\ survival_needs = NoNeeds
    /\ enforce_min_survival = FALSE
    /\ distribution_result = << >>
    /\ result = << >>
    /\ called = "none"
    /\ SessionIdle

CallGini ==
    /\ called = "none"
    /\ gini' = <<calculate_gini_coefficient(distribution)>>
    /\ called' = "calculate_gini_coefficient"
    /\ UNCHANGED <<agents, total_grain, survival_needs, distribution_result,
                   enforce_min_survival, result, distribution, family_reports,
                   allocation_opinions, family_resources, family_productions,
                   previous_total, overuse_warning, distribution_results>>
    /\ UNCHANGED svars

SpecGini == InitGini /\ [][CallGini]_vars

\* the positions of the list that hold a positive amount
Positive(dist) == {i \in DOMAIN dist : dist[i] > 0}

\* C12 as stated: 0 for an empty list, an all-zero list and a list of equal
\* positive values; for one positive value among n, the double (n-1)/n.
C12_GiniExact ==
    called = "calculate_gini_coefficient"
        => LET n == Len(distribution)
           IN  /\ (\A i, j \in 1 .. n : distribution[i] = distribution[j])
                     => gini[1] = FloatDiv(0, 1)
               /\ Cardinality(Positive(distribution)) = 1
                     => gini[1] = FloatDiv(n - 1, n)

\* C12 amended: for whole amounts the result is exactly 0 for an empty list,
\* an all-zero list and a list of equal positive values; for one positive
\* value among n it is 2 - fl((n+1)/n), which is within 2^-53 of the real
\* number (n-1)/n and is the double (n-1)/n itself when n is a power of two.
C12_GiniOneUlp ==
    called = "calculate_gini_coefficient"
        => LET n == Len(distribution)
           IN  /\ (\A i, j \in 1 .. n : distribution[i] = distribution[j])
                     => gini[1] = FloatDiv(0, 1)
               /\ Cardinality(Positive(distribution)) = 1
                     => /\ gini[1] = FloatSub(FloatDiv(2, 1), FloatDiv(n + 1, n))
                        /\ gini[1].r = Rat(n - 1, n)
                        /\ RLe(Int2Rat(-4), gini[1].u) /\ RLe(gini[1].u, Int2Rat(4))
                        /\ n \in {1, 2, 4, 8} => gini[1] = FloatDiv(n - 1, n)

\* C12 witness: one positive value among three, not in the last position; the
\* result is one unit in the last place above the double 2/3.
C12_Witness ==
    /\ called = "calculate_gini_coefficient"
    /\ Len(distribution) = 3 /\ Positive(distribution) = {1}
    /\ gini[1].r = Rat(2, 3)
    /\ gini[1] # FloatDiv(2, 3)

----------------------------------------------------------------------------
(* Negotiation session (collaborative_negotiation.py), stage 1: principles. *)
(* Canonical principle names stand for the source's strings:               *)
(*   needs_first = 按需分配, merit_based = 按劳分配, equal = 平等分配,       *)
(*   protect_vulnerable = 照顾弱势, efficiency = 效率优先,                   *)
(*   sustainability = 可持续发展.                                           *)
(* A principle an agent names is a phrase [text, words]: the name as       *)
(* written and the keywords of _normalize_principle_name it contains.      *)

\* keyword groups, in the order the source tests them
NeedsWords == {"by_need", "demand", "basic_need"}
MeritWords == {"by_labor", "contribution", "labor"}
EqualWords == {"equality", "even", "same"}
VulnerableWords == {"vulnerable", "hardship", "care"}
EfficiencyWords == {"efficiency", "effective"}
SustainWords == {"sustainable", "long_term", "development"}

normalize_principle_name(principle) ==
    IF principle.words \cap NeedsWords # {} THEN "needs_first"
    ELSE IF principle.words \cap MeritWords # {} THEN "merit_based"
    ELSE IF principle.words \cap EqualWords # {} THEN "equal"
    ELSE IF principle.words \cap VulnerableWords # {} THEN "protect_vulnerable"
    ELSE IF principle.words \cap EfficiencyWords # {} THEN "efficiency"
    ELSE IF principle.words \cap SustainWords # {} THEN "sustainability"
    ELSE principle.text

Phrase(text, words) == [text |-> text, words |-> words]

\* answer used when the oracle call fails: 按需分配, 公平合理, 可持续发展
FailedPreference ==
    <<Phrase("needs_first", {"by_need"}), Phrase("fair_and_reasonable", {}),
      Phrase("sustainability", {"sustainable", "development"})>>

\* answer used when no line of the reply parses: 公平分配, 满足基本需求, 考虑贡献
parse_principles_default ==
    <<Phrase("fair_allocation", {}), Phrase("meet_basic_demand", {"demand"}),
      Phrase("consider_contribution", {"contribution"})>>

\* majority threshold len(agents) // 2 + 1
Threshold(n) == n \div 2 + 1

\* normalised names of every mention, agent by agent, in the order given
RECURSIVE Mentions(_, _)
Mentions(prefs, k) ==
    IF k = 0 THEN << >>
    ELSE Mentions(prefs, k - 1)
            \o [i \in 1 .. Len(prefs[k]) |-> normalize_principle_name(prefs[k][i])]

MentionCount(m, name) == Cardinality({i \in DOMAIN m : m[i] = name})

find_common_principles(prefs) ==
    LET m == Mentions(prefs, Len(prefs))
    IN {m[i] : i \in {j \in DOMAIN m : MentionCount(m, m[j]) >= Threshold(Len(prefs))}}

\* the (at most two) most mentioned principles outside the common ones; ties
\* keep the order of first mention
DisputedPrinciples(prefs, common) ==
    LET m == SelectSeq(Mentions(prefs, Len(prefs)), LAMBDA x : x \notin common)
        names == {m[i] : i \in DOMAIN m}
        First(x) == CHOOSE i \in DOMAIN m : m[i] = x /\ \A j \in 1 .. i - 1 : m[j] # x
        Before(x, y) ==
            \/ MentionCount(m, x) > MentionCount(m, y)
            \/ MentionCount(m, x) = MentionCount(m, y) /\ First(x) < First(y)
    IN {x \in names : Cardinality({y \in names : Before(y, x)}) < 2}

Supporters(prefs, name) ==
    {a \in DOMAIN prefs :
        \E i \in DOMAIN prefs[a] : normalize_principle_name(prefs[a][i]) = name}

\* value-alignment table: does the value type follow the principle
Aligned(name, value_type) ==
    \/ name = "needs_first" /\ value_type \in {"needs_based", "altruistic"}
    \/ name = "merit_based" /\ value_type \in {"merit_based", "pragmatic"}
    \/ name = "equal" /\ value_type \in {"egalitarian", "altruistic"}
    \/ name = "protect_vulnerable" /\ value_type \in {"altruistic", "needs_based"}
    \/ name = "efficiency" /\ value_type \in {"merit_based", "pragmatic"}
    \/ name = "sustainability" /\ value_type = "pragmatic"

\* A variant in which a convincing text wins over every other agent.
evaluate_persuasion_effect_by_text(persuasion, ags, others, name) ==
    IF persuasion = "convincing" THEN Cardinality(others)
    ELSE Cardinality({a \in others : Aligned(name, ags[a].value_type)})

\* the persuasive text is an argument that is never read
evaluate_persuasion_effect(persuasion, ags, others, name) ==
    Cardinality({a \in others : Aligned(name, ags[a].value_type)})

\* outcome of the discussion of one disputed principle
moderate_principle_discussion(ags, prefs, name, persuasion) ==
    LET supporters == Supporters(prefs, name)
        others == DOMAIN prefs \ supporters
        total_support == Cardinality(supporters)
                            + evaluate_persuasion_effect(persuasion, ags, others, name)
    IN IF Cardinality(supporters) <= 1 THEN "insufficient"
       ELSE IF total_support >= Threshold(Len(ags)) THEN "adopted"
       ELSE "rejected"

\* persuasions: principle name -> the text the advocate's call returned, for
\* the principles that have an advocate
discuss_disputed_principles(ags, prefs, common, persuasions) ==
    [name \in DisputedPrinciples(prefs, common) |->
        moderate_principle_discussion(ags, prefs, name,
            IF name \in DOMAIN persuasions THEN persuasions[name] ELSE "none")]

\* final_principles = {**common_principles, **discussed_principles}
establish_principles(ags, prefs, persuasions) ==
    LET common == find_common_principles(prefs)
        discussed == discuss_disputed_principles(ags, prefs, common, persuasions)
    IN [name \in common \cup DOMAIN discussed |->
            IF name \in common THEN "common" ELSE discussed[name]]

----------------------------------------------------------------------------
(* Negotiation session, stage 2: framework.                                 *)

\* A variant of the table that looks for the equality principle first.
determine_allocation_strategy_equal_first(principle_names) ==
    IF "equal" \in principle_names THEN "equality_based"
    ELSE IF {"needs_first", "protect_vulnerable"} \subseteq principle_names THEN "needs_first"
    ELSE IF {"merit_based", "efficiency"} \subseteq principle_names THEN "contribution_based"
    ELSE "balanced_hybrid"

determine_allocation_strategy(principle_names) ==
    IF {"needs_first", "protect_vulnerable"} \subseteq principle_names THEN "needs_first"
    ELSE IF {"merit_based", "efficiency"} \subseteq principle_names THEN "contribution_based"
    ELSE IF "equal" \in principle_names THEN "equality_based"
    ELSE "balanced_hybrid"

get_base_ratios(base_method) ==
    IF base_method = "needs_first" THEN
        [survival_guarantee |-> Rat(60, 100), additional_support |-> Rat(25, 100),
         community_reserve |-> Rat(15, 100)]
    ELSE IF base_method = "contribution_based" THEN
        [survival_guarantee |-> Rat(40, 100), contribution_reward |-> Rat(50, 100),
         community_reserve |-> Rat(10, 100)]
    ELSE IF base_method = "equality_based" THEN
        [survival_guarantee |-> Rat(50, 100), equal_distribution |-> Rat(40, 100),
         community_reserve |-> Rat(10, 100)]
    ELSE
        [survival_guarantee |-> Rat(45, 100), merit_portion |-> Rat(25, 100),
         equal_portion |-> Rat(20, 100), community_reserve |-> Rat(10, 100)]

\* base_ratios.get(key, 0)
RatioGet(ratios, key) == IF key \in DOMAIN ratios THEN ratios[key] ELSE Zero

\* the fixed request a value type makes about the base ratios
get_ratio_adjustment_suggestion(ag, base_ratios) ==
    IF ag.value_type = "altruistic"
          /\ RLt(RatioGet(base_ratios, "survival_guarantee"), Rat(5, 10))
        THEN "raise_survival_guarantee_to_50"
    ELSE IF ag.value_type = "merit_based"
          /\ RLt(RatioGet(base_ratios, "contribution_reward"), Rat(4, 10))
        THEN "raise_contribution_share"
    ELSE IF ag.value_type = "egalitarian"
          /\ RLt(RatioGet(base_ratios, "equal_distribution"), Rat(3, 10))
        THEN "raise_equal_share"
    ELSE "none"

\* A variant that leaves the ratios as they are after a bump.
rebalance_ratios_skipped(ratios) == ratios

rebalance_ratios(ratios) ==
    LET total == SumRat(ratios, DOMAIN ratios)
    IN IF total # Int2Rat(1) THEN [k \in DOMAIN ratios |-> RDiv(ratios[k], total)]
       ELSE ratios

\* only the survival request changes the ratios, and only with a majority
apply_consensus_adjustments(ags, base_ratios) ==
    LET asking == {a \in Ids(ags) :
                      get_ratio_adjustment_suggestion(ags[a], base_ratios)
                          = "raise_survival_guarantee_to_50"}
    IN IF Cardinality(asking) >= Threshold(Len(ags))
       THEN rebalance_ratios(
               [base_ratios EXCEPT !["survival_guarantee"] = RMax(Rat(5, 10), @)])
       ELSE base_ratios

establish_priority_order(principle_names) ==
    LET order ==
            (IF "needs_first" \in principle_names \/ "protect_vulnerable" \in principle_names
                THEN <<"basic_survival_needs">> ELSE << >>)
            \o (IF "merit_based" \in principle_names THEN <<"labor_contribution">> ELSE << >>)
            \o (IF "equal" \in principle_names THEN <<"fairness">> ELSE << >>)
            \o (IF "sustainability" \in principle_names THEN <<"development_reserve">>
                ELSE << >>)
    IN IF order = << >> THEN <<"basic_survival_needs", "fair_and_reasonable">> ELSE order

negotiate_framework(ags, final_principles) ==
    LET base_method == determine_allocation_strategy(DOMAIN final_principles)
    IN [base_method |-> base_method,
        ratios |-> apply_consensus_adjustments(ags, get_base_ratios(base_method)),
        priority_order |-> establish_priority_order(DOMAIN final_principles),
        based_on_principles |-> DOMAIN final_principles]

----------------------------------------------------------------------------
(* Negotiation session, stage 3: details.  An allocation maps agent ids to  *)
(* grain amounts.                                                          *)

\* sum(needs.values()) over the whole survival-need map
TotalSurvivalNeeds(needs) == SumRat(needs, DOMAIN needs)

\* members * dependency ratio, the ratio being 2.0 without labor force
NeedWeight(ag) ==
    IF ag.labor_force > 0 THEN Rat(ag.members * ag.members, ag.labor_force)
    ELSE Int2Rat(ag.members * 2)

calculate_needs_first_allocation(total, ags, needs, ratios) ==
    LET survival_budget == RMul(total, ratios["survival_guarantee"])
        remaining_budget == RSub(total, survival_budget)
        total_survival_needs == TotalSurvivalNeeds(needs)
        total_weight == SumRat([a \in Ids(ags) |-> NeedWeight(ags[a])], Ids(ags))
        survival_share(a) ==
            IF RLt(Zero, total_survival_needs)
            THEN RMul(RDiv(NeedOf(needs, a), total_survival_needs), survival_budget)
            ELSE Zero
        additional_share(a) ==
            IF RLt(Zero, remaining_budget) /\ RLt(Zero, total_weight)
            THEN RMul(RDiv(NeedWeight(ags[a]), total_weight), remaining_budget)
            ELSE Zero
    IN [a \in Ids(ags) |-> RAdd(survival_share(a), additional_share(a))]

\* labor_force / total_labor * budget, nothing when nobody has labor force
LaborPortion(ags, a, budget) ==
    IF TotalLabor(ags) > 0
    THEN RMul(Rat(ags[a].labor_force, TotalLabor(ags)), budget)
    ELSE Zero

calculate_contribution_allocation(total, ags, needs, ratios) ==
    LET contribution_budget == RMul(total, ratios["contribution_reward"])
    IN [a \in Ids(ags) |-> RAdd(NeedOf(needs, a), LaborPortion(ags, a, contribution_budget))]

calculate_equality_allocation(total, ags) ==
    [a \in Ids(ags) |-> RDiv(total, Int2Rat(Len(ags)))]

calculate_hybrid_allocation(total, ags, needs, ratios) ==
    LET n == Int2Rat(Len(ags))
        survival_budget == RMul(total, ratios["survival_guarantee"])
        merit_budget == RMul(total, ratios["merit_portion"])
        equal_budget == RMul(total, ratios["equal_portion"])
    IN [a \in Ids(ags) |->
            RAdd(RAdd(RMin(NeedOf(needs, a), RDiv(survival_budget, n)),
                      LaborPortion(ags, a, merit_budget)),
                 RDiv(equal_budget, n))]

calculate_base_allocation(total, ags, needs, agreed_framework) ==
    IF agreed_framework.base_method = "needs_first"
        THEN calculate_needs_first_allocation(total, ags, needs, agreed_framework.ratios)
    ELSE IF agreed_framework.base_method = "contribution_based"
        THEN calculate_contribution_allocation(total, ags, needs, agreed_framework.ratios)
    ELSE IF agreed_framework.base_method = "equality_based"
        THEN calculate_equality_allocation(total, ags)
    ELSE calculate_hybrid_allocation(total, ags, needs, agreed_framework.ratios)

\* donors of one needy agent: the others above their own need, largest
\* surplus first, ties in agent order
SurplusOrder(ags, needs, alloc, needy) ==
    LET donors == {a \in Ids(ags) : a # needy /\ RLt(NeedOf(needs, a), alloc[a])}
        surplus(a) == RSub(alloc[a], NeedOf(needs, a))
        Before(a, b) == RLt(surplus(b), surplus(a)) \/ (surplus(a) = surplus(b) /\ a < b)
    IN [k \in 1 .. Cardinality(donors) |->
            CHOOSE a \in donors : Cardinality({b \in donors : Before(b, a)}) = k - 1]

\* one pass over the donors, each giving at most half of its surplus
RECURSIVE TransferFromDonors(_, _, _, _, _, _)
TransferFromDonors(needs, alloc, needy, order, k, remaining_deficit) ==
    IF k > Len(order) \/ RLe(remaining_deficit, Zero) THEN alloc
    ELSE LET donor == order[k]
             surplus == RSub(alloc[donor], NeedOf(needs, donor))
             transfer_amount == RMin(RMul(surplus, Rat(1, 2)), remaining_deficit)
         IN TransferFromDonors(needs,
                [alloc EXCEPT ![donor] = RSub(@, transfer_amount),
                              ![needy] = RAdd(@, transfer_amount)],
                needy, order, k + 1, RSub(remaining_deficit, transfer_amount))

redistribute_for_survival(ags, needs, alloc, needy, deficit) ==
    TransferFromDonors(needs, alloc, needy, SurplusOrder(ags, needs, alloc, needy), 1, deficit)

\* the agents are visited once, in order, on the allocation as changed so far
RECURSIVE handle_special_cases(_, _, _, _)
handle_special_cases(ags, needs, alloc, k) ==
    IF k > Len(ags) THEN alloc
    ELSE handle_special_cases(ags, needs,
            IF RLt(alloc[k], NeedOf(needs, k))
            THEN redistribute_for_survival(ags, needs, alloc, k,
                                           RSub(NeedOf(needs, k), alloc[k]))
            ELSE alloc,
            k + 1)

RAbs(a) == IF a.n < 0 THEN RNeg(a) ELSE a

\* the division total_grain / total_allocated raises when nothing is allocated
ValidateRaises(total, alloc) ==
    LET total_allocated == SumRat(alloc, DOMAIN alloc)
    IN RLt(Rat(1, 100), RAbs(RSub(total_allocated, total))) /\ total_allocated = Zero

\* A variant that leaves the allocation as it is.
validate_and_optimize_unscaled(total, alloc) == alloc

validate_and_optimize(total, alloc) ==
    LET total_allocated == SumRat(alloc, DOMAIN alloc)
    IN IF RLt(Rat(1, 100), RAbs(RSub(total_allocated, total)))
       THEN [a \in DOMAIN alloc |-> RMul(alloc[a], RDiv(total, total_allocated))]
       ELSE alloc

InitialAllocation(total, ags, needs, agreed_framework) ==
    handle_special_cases(ags, needs,
        calculate_base_allocation(total, ags, needs, agreed_framework), 1)


\* requested change of a disputing agent: expected_amount - allocated_amount
RequestedChange(alloc, opinions, a) == RSub(opinions[a].expected_amount, alloc[a])

Disputing(opinions) == {a \in DOMAIN opinions : opinions[a].has_objection}

mediate_allocation_adjustment(total, ags, needs, alloc, opinions, total_need) ==
    LET disputed == Disputing(opinions)
        actual_adjustment == RMin(RAbs(total_need), RMul(total, Rat(1, 10)))
        donors == {a \in Ids(ags) \ disputed :
                      RLt(Int2Rat(1), RSub(alloc[a], NeedOf(needs, a)))}
        surplus(a) == RSub(alloc[a], NeedOf(needs, a))
        total_available == SumRat([a \in donors |-> surplus(a)], donors)
        actual_transfer == RMin(actual_adjustment, RMul(total_available, Rat(3, 10)))
    IN IF RLt(Zero, total_need) /\ donors # {}
       THEN [a \in Ids(ags) |->
                IF a \in donors
                    THEN RSub(alloc[a], RMul(RDiv(surplus(a), total_available), actual_transfer))
                ELSE IF a \in disputed /\ RLt(Zero, RequestedChange(alloc, opinions, a))
                    THEN RAdd(alloc[a],
                              RMul(RDiv(RequestedChange(alloc, opinions, a), total_need),
                                   actual_transfer))
                ELSE alloc[a]]
       ELSE alloc

negotiate_disputed_allocations(total, ags, needs, alloc, opinions) ==
    LET disputed == Disputing(opinions)
        total_adjustment_need ==
            SumRat([a \in disputed |-> RequestedChange(alloc, opinions, a)], disputed)
    IN IF disputed = {} \/ RLt(RAbs(total_adjustment_need), Rat(1, 2)) THEN alloc
       ELSE mediate_allocation_adjustment(total, ags, needs, alloc, opinions,
                                          total_adjustment_need)

\* opinion the source uses when the oracle call fails, and the reply "accept"
AcceptOpinion(amount) == [has_objection |-> FALSE, expected_amount |-> amount]

\* the whole stage, for the opinions the oracle gave on the initial allocation
build_detailed_proposal(total, ags, needs, agreed_framework, opinions) ==
    LET initial_allocation ==
            validate_and_optimize(total, InitialAllocation(total, ags, needs, agreed_framework))
    IN validate_and_optimize(total,
            negotiate_disputed_allocations(total, ags, needs, initial_allocation, opinions))

\* the stage raises when one of its two normalisations divides by zero
DetailsRaises(total, ags, needs, agreed_framework, opinions) ==
    \/ ValidateRaises(total, InitialAllocation(total, ags, needs, agreed_framework))
    \/ ValidateRaises(total,
            negotiate_disputed_allocations(total, ags, needs,
                validate_and_optimize(total, InitialAllocation(total, ags, needs, agreed_framework)),
                opinions))

----------------------------------------------------------------------------
(* Negotiation session, stage 4: finalization.  A confirmation is           *)
(* [satisfaction_level, adjustment]; an adjustment is [kind, amount] with   *)
(* kind "none", "increase" (the text asks for more) or "target".           *)

NoAdjustment == [kind |-> "none", amount |-> 0]

\* rule-based confirmation used when the oracle call fails
FailedConfirmation(allocated_amount, survival_need) ==
    [satisfaction_level |->
        IF RLe(RMul(survival_need, Rat(11, 10)), allocated_amount) THEN 4
        ELSE IF RLt(allocated_amount, survival_need) THEN 2
        ELSE 3,
     adjustment |-> NoAdjustment]

Unsatisfied(feedback) == {a \in DOMAIN feedback : feedback[a].satisfaction_level < 3}

\* A variant that takes the target as the agent states it.
ProposalTargetAsStated(current_amount, adjustment) ==
    IF adjustment.kind = "increase" THEN RAdd(current_amount, Int2Rat(adjustment.amount))
    ELSE Int2Rat(adjustment.amount)

\* target amount of a proposal, clamped to +-20% of the current amount
ProposalTarget(current_amount, adjustment) ==
    LET max_change == RMul(current_amount, Rat(2, 10))
        target_amount == IF adjustment.kind = "increase"
                         THEN RAdd(current_amount, Int2Rat(adjustment.amount))
                         ELSE Int2Rat(adjustment.amount)
    IN RMax(RSub(current_amount, max_change),
            RMin(target_amount, RAdd(current_amount, max_change)))

\* proposals of the unsatisfied agents whose suggestion holds a number
collect_adjustment_proposals(alloc, feedback, unsatisfied_agents) ==
    [a \in {b \in unsatisfied_agents : feedback[b].adjustment.kind # "none"} |->
        [current_amount |-> alloc[a],
         target_amount |-> ProposalTarget(alloc[a], feedback[a].adjustment)]]

vote_on_adjustments(total, ags, alloc, proposals) ==
    LET increase_needed(a) ==
            RMax(Zero, RSub(proposals[a].target_amount, proposals[a].current_amount))
        total_increase_needed ==
            SumRat([a \in DOMAIN proposals |-> increase_needed(a)], DOMAIN proposals)
        avg_allocation == RDiv(total, Int2Rat(Len(ags)))
        potential_donors ==
            {a \in Ids(ags) \ DOMAIN proposals :
                RLt(RMul(avg_allocation, Rat(11, 10)), alloc[a])}
        surplus(a) == RSub(alloc[a], avg_allocation)
        total_available == SumRat([a \in potential_donors |-> surplus(a)], potential_donors)
        actual_transfer == RMin(total_increase_needed, RMul(total_available, Rat(1, 2)))
    IN IF DOMAIN proposals = {} \/ potential_donors = {} THEN alloc
       ELSE IF RLt(Rat(1, 2), actual_transfer)
       THEN [a \in Ids(ags) |->
                IF a \in potential_donors
                    THEN RSub(alloc[a], RMul(RDiv(surplus(a), total_available), actual_transfer))
                ELSE IF a \in DOMAIN proposals /\ RLt(Zero, increase_needed(a))
                    THEN RAdd(alloc[a],
                              RMul(RDiv(increase_needed(a), total_increase_needed),
                                   actual_transfer))
                ELSE alloc[a]]
       ELSE alloc
\* variant: a second round for any unsatisfied agent that formed a proposal
SecondRoundRunsForAnyUnsatisfied(ags, alloc, first_feedback) ==
    LET unsat == Unsatisfied(first_feedback)
    IN /\ unsat # {}
       /\ DOMAIN collect_adjustment_proposals(alloc, first_feedback, unsat) # {}

\* a second round runs for a non-empty minority that formed a proposal
SecondRoundRuns(ags, alloc, first_feedback) ==
    LET unsat == Unsatisfied(first_feedback)
    IN /\ unsat # {}
       /\ Cardinality(unsat) <= Len(ags) \div 2
       /\ DOMAIN collect_adjustment_proposals(alloc, first_feedback, unsat) # {}

\* A variant that redistributes for every proposal, majority or not.
CurrentProposalForAnyProposal(total, ags, alloc, first_feedback) ==
    vote_on_adjustments(total, ags, alloc,
        collect_adjustment_proposals(alloc, first_feedback, Unsatisfied(first_feedback)))

\* the proposal handed to the integerization
CurrentProposal(total, ags, alloc, first_feedback) ==
    IF SecondRoundRuns(ags, alloc, first_feedback)
    THEN vote_on_adjustments(total, ags, alloc,
            collect_adjustment_proposals(alloc, first_feedback, Unsatisfied(first_feedback)))
    ELSE alloc

MeanLevel(feedback) ==
    Rat(SumInt([a \in DOMAIN feedback |-> feedback[a].satisfaction_level], DOMAIN feedback),
        Cardinality(DOMAIN feedback))

\* value of the attribute final_average_satisfaction: <<mean>>, or << >> when
\* it is never assigned because second_feedback is read although the second
\* round did not run (the error is swallowed)
FinalAverageSatisfaction(ags, first_feedback, second_feedback, second_ran) ==
    LET unsat == Unsatisfied(first_feedback)
    IN IF unsat = {} \/ Cardinality(unsat) > Len(ags) \div 2
       THEN <<MeanLevel(first_feedback)>>
       ELSE IF second_ran THEN <<MeanLevel(second_feedback)>>
       ELSE << >>
\* variant: every agent gets the whole units of its share only
create_fallback_proposal_whole_units(total, ags) ==
    [a \in Ids(ags) |-> Int2Rat(Floor(RDiv(total, Int2Rat(Len(ags)))))]


create_fallback_proposal(total, ags) ==
    [a \in Ids(ags) |-> RDiv(total, Int2Rat(Len(ags)))]

----------------------------------------------------------------------------
(* The negotiation session: run_collaborative_negotiation calls the four    *)
(* stages in turn; each stage is one action.  What the oracle answers and   *)
(* whether a stage raises are inputs of the action.                         *)

Household(value_type, members, labor_force) ==
    [members |-> members, labor_force |-> labor_force, value_type |-> value_type]

\* agent sets the sessions are run with
SessionPopulations ==
    {<<Household("pragmatic", 2, 2)>>,
     <<Household("altruistic", 2, 1), Household("merit_based", 3, 3)>>,
     <<Household("egalitarian", 1, 1), Household("needs_based", 2, 0)>>,
     <<Household("altruistic", 2, 1), Household("altruistic", 3, 1)>>}

SessionPools == {5, 20}

DerivedNeeds(ags) ==
    [a \in Ids(ags) |-> calculate_survival_needs(ags[a].members, ags[a].labor_force)]

\* answers of the oracle
PreferenceReplies ==
    {FailedPreference, parse_principles_default,
     <<Phrase("needs_first", {"by_need"}), Phrase("protect_vulnerable", {"vulnerable", "care"}),
       Phrase("meet_basic_demand", {"demand"})>>,
     <<Phrase("merit_based", {"by_labor"}), Phrase("efficiency", {"efficiency"})>>,
     <<Phrase("equal", {"equality"}), Phrase("sustainability", {"sustainable", "development"})>>,
     <<Phrase("equal", {"equality"}), Phrase("merit_based", {"by_labor"}),
       Phrase("efficiency", {"efficiency"})>>}

ExpectedAmounts == {0, 8}

SatisfactionLevels == 1 .. 5

Adjustments == {[kind |-> "increase", amount |-> 2], [kind |-> "target", amount |-> 1]}

\* variant: the framework is negotiated again after the details
NextCallRenegotiating(call) ==
    IF call = "establish_principles" THEN "negotiate_framework"
    ELSE IF call = "negotiate_framework" THEN "build_detailed_proposal"
    ELSE IF call = "build_detailed_proposal" THEN "negotiate_framework"
    ELSE "returned"

\* the next call of run_collaborative_negotiation after a stage returned
NextCall(call) ==
    IF call = "establish_principles" THEN "negotiate_framework"
    ELSE IF call = "negotiate_framework" THEN "build_detailed_proposal"
    ELSE IF call = "build_detailed_proposal" THEN "finalize_proposal"
    ELSE "returned"

Init ==
    /\ agents \in SessionPopulations
    /\ survival_needs = DerivedNeeds(agents)
    /\ total_grain \in {Int2Rat(k) : k \in SessionPools}
    /\ enforce_min_survival = TRUE
    /\ distribution_result = << >>
    /\ result = << >>
    /\ called = "none"
    /\ current_stage = "principles"
    /\ stage_trace = << >>
    /\ stage_results = << >>
    /\ pc = "establish_principles"
    /\ outcome = "none"
    /\ principle_preferences = << >>
    /\ principles = << >>
    /\ framework = << >>
    /\ detailed_proposal = << >>
    /\ unsatisfied = {}
    /\ satisfaction_rounds = 0
    /\ last_feedback_mean = Zero
    /\ final_average_satisfaction = << >>
    /\ exception_forced = FALSE
    /\ oracle_calls = 0
    /\ oracle_failures = 0
    /\ conflict_flagged = FALSE
    /\ adjustment_proposals = << >>
    /\ EvaluationIdle

\* a stage method sets current_stage first
EnterStage(stage) ==
    /\ current_stage' = stage
    /\ stage_trace' = Append(stage_trace, stage)

\* except-branch of run_collaborative_negotiation
Fallback ==
    /\ result' = create_fallback_proposal(total_grain, agents)
    /\ outcome' = "fallback"
    /\ pc' = "returned"
    /\ called' = "run_collaborative_negotiation"

\* A variant in which a failed oracle call raises into the stage.
FailureRaisesIntoStage(failed) == failed

\* Every oracle call sits in try / except Exception and the except-branch
\* returns the default of the call: a failed call never raises into the stage.
FailureRaises(failed) == FALSE

EstablishPrinciples ==
    /\ pc = "establish_principles"
    /\ EnterStage("principles")
    /\ \/ /\ Fallback
          /\ exception_forced' = TRUE
          /\ UNCHANGED <<stage_results, principle_preferences, principles,
                         oracle_calls, oracle_failures>>
       \/ \E prefs \in [Ids(agents) -> PreferenceReplies] :
            LET common == find_common_principles(prefs)
                \* one persuasion call per disputed principle with two supporters
                advocated == {name \in DisputedPrinciples(prefs, common) :
                                Cardinality(Supporters(prefs, name)) > 1}
                failed == {a \in Ids(agents) : prefs[a] = FailedPreference}
            IN \E persuasions \in [advocated -> {"fallback", "plain", "convincing"}] :
               /\ oracle_calls' = oracle_calls + Len(agents) + Cardinality(advocated)
               /\ oracle_failures' =
                     oracle_failures + Cardinality(failed)
                        + Cardinality({name \in advocated : persuasions[name] = "fallback"})
               /\ UNCHANGED exception_forced
               /\ IF \E a \in failed : FailureRaises(TRUE)
                  THEN /\ Fallback
                       /\ UNCHANGED <<stage_results, principle_preferences, principles>>
                  ELSE /\ principle_preferences' = prefs
                       /\ principles' = establish_principles(agents, prefs, persuasions)
                       /\ stage_results' = Append(stage_results, "principles")
                       /\ pc' = NextCall(pc)
                       /\ UNCHANGED <<result, outcome, called>>
    /\ UNCHANGED evars
    /\ UNCHANGED <<agents, total_grain, survival_needs, distribution_result,
                   enforce_min_survival, framework, detailed_proposal, unsatisfied,
                   satisfaction_rounds, last_feedback_mean, final_average_satisfaction,
                   conflict_flagged,
                   adjustment_proposals>>

NegotiateFramework ==
    /\ pc = "negotiate_framework"
    /\ EnterStage("framework")
    /\ principle_preferences' = << >>
    /\ \/ /\ Fallback
          /\ exception_forced' = TRUE
          /\ UNCHANGED <<stage_results, framework>>
       \/ /\ framework' = negotiate_framework(agents, principles)
          /\ stage_results' = Append(stage_results, "framework")
          /\ pc' = NextCall(pc)
          /\ UNCHANGED <<result, outcome, called, exception_forced>>
    /\ UNCHANGED evars
    /\ UNCHANGED <<agents, total_grain, survival_needs, distribution_result,
                   enforce_min_survival, principles, detailed_proposal, unsatisfied,
                   satisfaction_rounds, last_feedback_mean, final_average_satisfaction,
                   oracle_calls, oracle_failures, conflict_flagged,
                   adjustment_proposals>>

\* what an agent may answer about its initial allocation, or the call fails
OpinionChoices ==
    {[failed |-> TRUE, has_objection |-> FALSE, names_amount |-> FALSE, amount |-> 0],
     [failed |-> FALSE, has_objection |-> FALSE, names_amount |-> FALSE, amount |-> 0],
     [failed |-> FALSE, has_objection |-> TRUE, names_amount |-> FALSE, amount |-> 0]}
    \cup {[failed |-> FALSE, has_objection |-> TRUE, names_amount |-> TRUE, amount |-> k] :
            k \in ExpectedAmounts}

\* expected_amount defaults to the allocated amount when no number is given
get_allocation_opinion(choice, allocated_amount) ==
    IF choice.failed THEN AcceptOpinion(allocated_amount)
    ELSE [has_objection |-> choice.has_objection,
          expected_amount |-> IF choice.names_amount THEN Int2Rat(choice.amount)
                              ELSE allocated_amount]

BuildDetailedProposal ==
    /\ pc = "build_detailed_proposal"
    /\ EnterStage("details")
    /\ \/ /\ Fallback
          /\ exception_forced' = TRUE
          /\ UNCHANGED <<stage_results, detailed_proposal, oracle_calls, oracle_failures>>
       \/ \E choices \in [Ids(agents) -> OpinionChoices] :
            LET initial_allocation ==
                    validate_and_optimize(total_grain,
                        InitialAllocation(total_grain, agents, survival_needs, framework))
                opinions == [a \in Ids(agents) |->
                                get_allocation_opinion(choices[a], initial_allocation[a])]
            IN /\ oracle_calls' = oracle_calls + Len(agents)
               /\ oracle_failures' =
                     oracle_failures + Cardinality({a \in Ids(agents) : choices[a].failed})
               /\ UNCHANGED exception_forced
               /\ IF \/ \E a \in Ids(agents) : FailureRaises(choices[a].failed)
                     \/ DetailsRaises(total_grain, agents, survival_needs, framework, opinions)
                  THEN /\ Fallback
                       /\ UNCHANGED <<stage_results, detailed_proposal>>
                  ELSE /\ detailed_proposal' =
                             build_detailed_proposal(total_grain, agents, survival_needs,
                                                     framework, opinions)
                       /\ stage_results' = Append(stage_results, "detailed_proposal")
                       /\ pc' = NextCall(pc)
                       /\ UNCHANGED <<result, outcome, called>>
    /\ UNCHANGED evars
    /\ UNCHANGED <<agents, total_grain, survival_needs, distribution_result,
                   enforce_min_survival, principle_preferences, principles, framework,
                   unsatisfied, satisfaction_rounds, last_feedback_mean,
                   final_average_satisfaction, conflict_flagged,
                   adjustment_proposals>>

\* what an agent may answer when asked to confirm
ConfirmationChoices ==
    {[failed |-> TRUE, satisfaction_level |-> 3, adjustment |-> NoAdjustment]}
    \cup {[failed |-> FALSE, satisfaction_level |-> l, adjustment |-> NoAdjustment] :
            l \in SatisfactionLevels}
    \cup {[failed |-> FALSE, satisfaction_level |-> l, adjustment |-> adj] :
            l \in {k \in SatisfactionLevels : k < 3}, adj \in Adjustments}

\* in the second round only the level is read
SecondRoundChoices == {c \in ConfirmationChoices : c.adjustment = NoAdjustment}

get_final_confirmation_llm(choice, allocated_amount, survival_need) ==
    IF choice.failed THEN FailedConfirmation(allocated_amount, survival_need)
    ELSE [satisfaction_level |-> choice.satisfaction_level, adjustment |-> choice.adjustment]

collect_final_confirmation(ags, needs, proposal, choices) ==
    [a \in Ids(ags) |-> get_final_confirmation_llm(choices[a], proposal[a], NeedOf(needs, a))]

\* the stage returns: the proposal is integerized and the session succeeds
FinalizeReturns(current_proposal) ==
    /\ distribution_result' = current_proposal
    /\ result' = integerize_allocation(agents, current_proposal, survival_needs, TRUE)
    /\ outcome' = "success"
    /\ pc' = NextCall(pc)
    /\ called' = "run_collaborative_negotiation"

\* the stage raises: the session falls back
FinalizeRaises ==
    /\ Fallback
    /\ UNCHANGED distribution_result

FinalizeProposal ==
    /\ pc = "finalize_proposal"
    /\ EnterStage("finalization")
    /\ \/ /\ FinalizeRaises
          /\ exception_forced' = TRUE
          /\ UNCHANGED <<unsatisfied, satisfaction_rounds, last_feedback_mean,
                         final_average_satisfaction, oracle_calls, oracle_failures,
                         conflict_flagged,
                   adjustment_proposals>>
       \/ \E c1 \in [Ids(agents) -> ConfirmationChoices] :
            LET first_feedback ==
                    collect_final_confirmation(agents, survival_needs, detailed_proposal, c1)
                second_runs == SecondRoundRuns(agents, detailed_proposal, first_feedback)
                current_proposal ==
                    CurrentProposal(total_grain, agents, detailed_proposal, first_feedback)
                Failed(c) == Cardinality({a \in Ids(agents) : c[a].failed})
                Raised(c) == \E a \in Ids(agents) : FailureRaises(c[a].failed)
            IN /\ unsatisfied' = Unsatisfied(first_feedback)
               /\ conflict_flagged' =
                     (Cardinality(Unsatisfied(first_feedback)) > Len(agents) \div 2)
               /\ adjustment_proposals' =
                     IF /\ Unsatisfied(first_feedback) # {}
                        /\ Cardinality(Unsatisfied(first_feedback)) <= Len(agents) \div 2
                     THEN collect_adjustment_proposals(detailed_proposal, first_feedback,
                                                       Unsatisfied(first_feedback))
                     ELSE << >>
               /\ \/ /\ ~Raised(c1)
                     /\ FinalizeReturns(current_proposal)
                     /\ UNCHANGED exception_forced
                     /\ \/ /\ ~second_runs
                           /\ satisfaction_rounds' = 1
                           /\ oracle_calls' = oracle_calls + Len(agents)
                           /\ oracle_failures' = oracle_failures + Failed(c1)
                           /\ last_feedback_mean' = MeanLevel(first_feedback)
                           /\ final_average_satisfaction' =
                                 FinalAverageSatisfaction(agents, first_feedback, << >>, FALSE)
                        \/ /\ second_runs
                           /\ satisfaction_rounds' = 2
                           /\ oracle_calls' = oracle_calls + 2 * Len(agents)
                           /\ \E c2 \in [Ids(agents) -> SecondRoundChoices] :
                                LET second_feedback ==
                                        collect_final_confirmation(agents, survival_needs,
                                                                   current_proposal, c2)
                                IN /\ ~Raised(c2)
                                   /\ oracle_failures' =
                                         oracle_failures + Failed(c1) + Failed(c2)
                                   /\ last_feedback_mean' = MeanLevel(second_feedback)
                                   /\ final_average_satisfaction' =
                                         FinalAverageSatisfaction(agents, first_feedback,
                                                                  second_feedback, TRUE)
                  \/ /\ FinalizeRaises
                     /\ UNCHANGED final_average_satisfaction
                     /\ \/ /\ satisfaction_rounds' = 1
                           /\ oracle_calls' = oracle_calls + Len(agents)
                           /\ oracle_failures' = oracle_failures + Failed(c1)
                           /\ exception_forced' = ~Raised(c1)
                           /\ last_feedback_mean' = MeanLevel(first_feedback)
                        \/ /\ second_runs
                           /\ ~Raised(c1)
                           /\ satisfaction_rounds' = 2
                           /\ oracle_calls' = oracle_calls + 2 * Len(agents)
                           /\ \E c2 \in [Ids(agents) -> SecondRoundChoices] :
                                /\ oracle_failures' =
                                      oracle_failures + Failed(c1) + Failed(c2)
                                /\ exception_forced' = ~Raised(c2)
                                /\ last_feedback_mean' =
                                      MeanLevel(collect_final_confirmation(agents,
                                                    survival_needs, current_proposal, c2))
    /\ UNCHANGED evars
    /\ UNCHANGED <<agents, total_grain, survival_needs, enforce_min_survival,
                   stage_results, principle_preferences, principles, framework,
                   detailed_proposal>>

Next ==
    \/ EstablishPrinciples
    \/ NegotiateFramework
    \/ BuildDetailedProposal
    \/ FinalizeProposal

Spec == Init /\ [][Next]_vars

\* run_collaborative_negotiation makes its calls one after the other until
\* it returns: a session that can take a step takes it.
FairSpec == Spec /\ WF_vars(Next)

----------------------------------------------------------------------------
(* The Principles stage on its own, for a session of four households: with *)
(* four agents a principle can have an advocate without being common, so   *)
(* that persuasion rounds take place.                                       *)

InitPrinciples ==
    /\ agents = <<Household("altruistic", 2, 1), Household("merit_based", 3, 3),
                  Household("egalitarian", 1, 1), Household("needs_based", 2, 0)>>
    /\ survival_needs = DerivedNeeds(agents)
    /\ total_grain = Int2Rat(20)
    /\ enforce_min_survival = TRUE
    /\ distribution_result = << >>
    /\ result = << >>
    /\ called = "none"
    /\ current_stage = "principles"
    /\ stage_trace = << >>
    /\ stage_results = << >>
    /\ pc = "establish_principles"
    /\ outcome = "none"
    /\ principle_preferences = << >>
    /\ principles = << >>
    /\ framework = << >>
    /\ detailed_proposal = << >>
    /\ unsatisfied = {}
    /\ satisfaction_rounds = 0
    /\ last_feedback_mean = Zero
    /\ final_average_satisfaction = << >>
    /\ exception_forced = FALSE
    /\ oracle_calls = 0
    /\ oracle_failures = 0
    /\ conflict_flagged = FALSE
    /\ adjustment_proposals = << >>
    /\ EvaluationIdle

SpecPrinciples == InitPrinciples /\ [][EstablishPrinciples]_vars

----------------------------------------------------------------------------
(* The Details stage on its own: _build_detailed_proposal called on a       *)
(* session whose first two stages have returned.  The survival needs are   *)
(* the constructor's argument: the derived ones, or a map in which the     *)
(* first household needs far more than the others.                          *)

InitDetails ==
    /\ agents \in {<<Household("egalitarian", 1, 1), Household("needs_based", 2, 0)>>,
                   <<Household("altruistic", 2, 1), Household("merit_based", 3, 3),
                     Household("egalitarian", 1, 1)>>}
    /\ survival_needs \in {DerivedNeeds(agents),
                           [a \in Ids(agents) |-> Int2Rat(IF a = 1 THEN 14 ELSE 3)]}
    /\ total_grain \in {Int2Rat(20), Int2Rat(30)}
    /\ \E reply \in PreferenceReplies :
          /\ principles = establish_principles(agents, [a \in Ids(agents) |-> reply], << >>)
          /\ oracle_failures = IF reply = FailedPreference THEN Len(agents) ELSE 0
    /\ framework = negotiate_framework(agents, principles)
    /\ oracle_calls = Len(agents)
    /\ enforce_min_survival = TRUE
    /\ distribution_result = << >>
    /\ result = << >>
    /\ called = "none"
    /\ current_stage = "framework"
    /\ stage_trace = <<"principles", "framework">>
    /\ stage_results = <<"principles", "framework">>
    /\ pc = "build_detailed_proposal"
    /\ outcome = "none"
    /\ principle_preferences = << >>
    /\ detailed_proposal = << >>
    /\ unsatisfied = {}
    /\ satisfaction_rounds = 0
    /\ last_feedback_mean = Zero
    /\ final_average_satisfaction = << >>
    /\ exception_forced = FALSE
    /\ conflict_flagged = FALSE
    /\ adjustment_proposals = << >>
    /\ EvaluationIdle

SpecDetails == InitDetails /\ [][BuildDetailedProposal]_vars

----------------------------------------------------------------------------
(* The mediation of the Details stage on its own:                           *)
(* _negotiate_disputed_allocations called with the initial allocation of a  *)
(* session and the opinions the agents gave on it.  distribution_result     *)
(* holds the allocation handed in, result the allocation returned.          *)

InitMediation ==
    /\ agents = <<Household("altruistic", 2, 1), Household("merit_based", 3, 3),
                  Household("egalitarian", 1, 1)>>
    /\ survival_needs \in {DerivedNeeds(agents),
                           [a \in Ids(agents) |-> Int2Rat(IF a = 1 THEN 14 ELSE 3)]}
    /\ total_grain \in {Int2Rat(20), Int2Rat(30)}
    /\ \E reply \in PreferenceReplies :
          distribution_result =
              validate_and_optimize(total_grain,
                  InitialAllocation(total_grain, agents, survival_needs,
                      negotiate_framework(agents,
                          establish_principles(agents, [a \in Ids(agents) |-> reply], << >>))))
    /\ \E choices \in [Ids(agents) -> OpinionChoices] :
          allocation_opinions =
              [a \in Ids(agents) |-> get_allocation_opinion(choices[a], distribution_result[a])]
    /\ enforce_min_survival = TRUE
    /\ result = << >>
    /\ called = "none"
    /\ distribution = << >>
    /\ gini = << >>
    /\ family_reports = << >>
    /\ family_resources = << >>
    /\ family_productions = << >>
    /\ previous_total = Zero
    /\ overuse_warning = FALSE
    /\ distribution_results = << >>
    /\ SessionIdle

CallMediation ==
    /\ called = "none"
    /\ result' = negotiate_disputed_allocations(total_grain, agents, survival_needs,
                                                distribution_result, allocation_opinions)
    /\ called' = "negotiate_disputed_allocations"
    /\ UNCHANGED <<agents, total_grain, survival_needs, distribution_result,
                   enforce_min_survival>>
    /\ UNCHANGED svars
    /\ UNCHANGED evars

SpecMediation == InitMediation /\ [][CallMediation]_vars

----------------------------------------------------------------------------
(* LLM-driven needs-based allocation (distribution_mechanisms.py): every    *)
(* family files a report with the amount it requests and the least amount  *)
(* it accepts; the reports and the pool decide the allocation.  What the    *)
(* families report is an input of the model.                                *)

MaxRequest == 3

\* variant: with a shortage every request is cut by the same factor
LlmNeedsProportionalCut(total, reports) ==
    LET ids == DOMAIN reports
        requested == [a \in ids |-> Int2Rat(reports[a].requested_amount)]
        total_requested == SumRat(requested, ids)
    IN IF RLe(total_requested, total) THEN requested
       ELSE [a \in ids |-> RMul(RDiv(requested[a], total_requested), total)]

\* the allocation before integerization
LlmNeedsFractional(total, reports) ==
    LET ids == DOMAIN reports
        requested == [a \in ids |-> Int2Rat(reports[a].requested_amount)]
        minimum == [a \in ids |-> Int2Rat(reports[a].minimum_acceptable)]
        total_requested == SumRat(requested, ids)
        total_minimum == SumRat(minimum, ids)
        total_range == SumRat([a \in ids |-> RSub(requested[a], minimum[a])], ids)
        remaining == RSub(total, total_minimum)
    IN IF RLe(total_requested, total) THEN requested
       ELSE IF RLe(total_minimum, total)
       THEN [a \in ids |->
                IF RLt(Zero, total_range)
                THEN RAdd(minimum[a],
                          RMul(RDiv(RSub(requested[a], minimum[a]), total_range), remaining))
                ELSE RMul(RDiv(requested[a], total_requested), total)]
       ELSE [a \in ids |-> RMul(RDiv(requested[a], total_requested), total)]

InitLlmNeeds ==
    /\ agents \in SessionPopulations
    /\ survival_needs = DerivedNeeds(agents)
    /\ total_grain \in {Int2Rat(k) : k \in 1 .. MaxPool}
    /\ family_reports \in
         [Ids(agents) -> [requested_amount : 1 .. MaxRequest,
                          minimum_acceptable : 0 .. MaxRequest]]
    /\ enforce_min_survival = FALSE
    /\ distribution_result = << >>
    /\ result = << >>
    /\ called = "none"
    /\ distribution = << >>
    /\ gini = << >>
    /\ allocation_opinions = << >>
    /\ family_resources = << >>
    /\ family_productions = << >>
    /\ previous_total = Zero
    /\ overuse_warning = FALSE
    /\ distribution_results = << >>
    /\ SessionIdle

CallLlmNeedsBased ==
    /\ called = "none"
    /\ distribution_result' = LlmNeedsFractional(total_grain, family_reports)
    /\ result' = integerize_distribution(agents,
                     LlmNeedsFractional(total_grain, family_reports), survival_needs, TRUE)
    /\ enforce_min_survival' = TRUE
    /\ called' = "llm_driven_needs_based_distribution"
    /\ UNCHANGED <<agents, total_grain, survival_needs, distribution, gini, family_reports,
                   allocation_opinions, family_resources, family_productions,
                   previous_total, overuse_warning, distribution_results>>
    /\ UNCHANGED svars

SpecLlmNeeds == InitLlmNeeds /\ [][CallLlmNeedsBased]_vars

----------------------------------------------------------------------------
(* The simulation runner.  run_single_round distributes the pool held by   *)
(* the resource generator, computes every household's production from the  *)
(* grain it now holds, and hands the productions to the generator, whose   *)
(* pool the next run distributes.  run_simulation appends what the run     *)
(* returned to distribution_results.  The methods enumerated are the three *)
(* algorithmic ones and a name run_single_round does not know; the         *)
(* fairness score of each household is an input.                           *)

MaxRuns == 2

\* resource_generation.calculate_production, with the efficiency of
\* calculate_satisfaction_efficiency; a dict is << >> or <<grain>>, and the
\* score None is << >>.
calculate_production(resources, need, labor_force, satisfaction_score) ==
    LET base_output == Int2Rat(5)
        satisfaction_normalized ==
            RDiv(RSub(satisfaction_score[1], Rat(5, 2)), Rat(5, 2))
        efficiency_of_score ==
            IF RLe(Zero, satisfaction_normalized)
            THEN RAdd(Int2Rat(1), RMul(satisfaction_normalized, Rat(2, 5)))
            ELSE RSub(Int2Rat(1), RMul(RAbs(satisfaction_normalized), Rat(3, 10)))
        satisfaction_efficiency ==
            IF satisfaction_score = << >> THEN Int2Rat(1)
            ELSE RMax(Rat(4, 5), RMin(efficiency_of_score, Rat(6, 5)))
        available == RMax(Zero, RSub(resources[1], need))
        actual_processed == RMin(available, Int2Rat(labor_force * 5))
        labor_density == RMin(RDiv(Int2Rat(labor_force), actual_processed), Int2Rat(1))
        efficiency == RMul(RAdd(Int2Rat(1), labor_density), satisfaction_efficiency)
    IN  IF resources = << >> THEN << >>
        ELSE IF actual_processed = Zero \/ labor_force = 0 THEN <<base_output>>
        ELSE <<RAdd(base_output, RMul(actual_processed, efficiency))>>

\* A generator that adds the productions to the pool it already holds.
generate_next_round_resources_keeping_pool(previous, productions) ==
    LET producing == {a \in DOMAIN productions : productions[a] # << >>}
        new_amount ==
            RAdd(previous, SumRat([a \in producing |-> productions[a][1]], producing))
        sustainability_index ==
            IF RLt(Zero, previous) THEN RDiv(new_amount, previous) ELSE Int2Rat(1)
    IN  [current_resources |-> new_amount,
         previous_total |-> new_amount,
         overuse_warning |-> RLt(sustainability_index, Rat(9, 10))]

\* ResourceGenerator.generate_next_round_resources and
\* check_resource_sustainability: the generator's state after the call
generate_next_round_resources(previous, productions) ==
    LET producing == {a \in DOMAIN productions : productions[a] # << >>}
        total_production == SumRat([a \in producing |-> productions[a][1]], producing)
        new_amount == total_production
        sustainability_index ==
            IF RLt(Zero, previous) THEN RDiv(new_amount, previous) ELSE Int2Rat(1)
    IN  [current_resources |-> new_amount,
         previous_total |-> new_amount,
         overuse_warning |-> RLt(sustainability_index, Rat(9, 10))]

\* SimulationRunner.setup
InitRunner ==
    /\ agents \in SessionPopulations
    /\ survival_needs = DerivedNeeds(agents)
    /\ total_grain \in {Int2Rat(20), Int2Rat(100)}
    /\ previous_total = total_grain
    /\ overuse_warning = FALSE
    /\ family_resources = [a \in Ids(agents) |-> << >>]
    /\ family_productions = << >>
    /\ distribution_results = << >>
    /\ enforce_min_survival = FALSE
    /\ distribution_result = << >>
    /\ result = << >>
    /\ called = "none"
    /\ distribution = << >>
    /\ gini = << >>
    /\ family_reports = << >>
    /\ allocation_opinions = << >>
    /\ SessionIdle

\* run_single_round(method) and the append of run_simulation
RunSingleRound ==
    /\ Len(distribution_results) < MaxRuns
    /\ \E method \in {"equal", "needs_based", "contribution_based", "unknown"} :
          IF method = "unknown"
          THEN /\ distribution_results' = Append(distribution_results, << >>)
               /\ UNCHANGED <<total_grain, distribution_result, called, family_resources,
                              family_productions, previous_total, overuse_warning>>
          ELSE \E dist \in
                     {CASE method = "equal" -> equal_distribution(total_grain, agents)
                        [] method = "needs_based" ->
                              needs_based_distribution(total_grain, agents, survival_needs)
                        [] method = "contribution_based" ->
                              contribution_based_distribution(total_grain, agents,
                                                              survival_needs)} :
               \E resources \in
                     {[a \in Ids(agents) |->
                         IF a \in DOMAIN dist THEN <<dist[a]>> ELSE family_resources[a]]} :
               \E scores \in [Ids(agents) -> {<< >>, <<Int2Rat(1)>>, <<Int2Rat(5)>>}] :
               \E productions \in
                     {[a \in Ids(agents) |->
                         calculate_production(resources[a], NeedOf(survival_needs, a),
                                              agents[a].labor_force, scores[a])]} :
               \E generated \in {generate_next_round_resources(previous_total, productions)} :
                  /\ distribution_result' = dist
                  /\ called' = method
                  /\ family_resources' = resources
                  /\ family_productions' = productions
                  /\ total_grain' = generated.current_resources
                  /\ previous_total' = generated.previous_total
                  /\ overuse_warning' = generated.overuse_warning
                  /\ distribution_results' =
                        Append(distribution_results,
                               [resources |-> total_grain,
                                distribution |-> dist,
                                productions |-> productions,
                                next_resources |-> generated.current_resources])
    /\ UNCHANGED <<agents, survival_needs, enforce_min_survival, result, distribution, gini,
                   family_reports, allocation_opinions>>
    /\ UNCHANGED svars

SpecRunner == InitRunner /\ [][RunSingleRound]_vars

LlmAllocated == called = "llm_driven_needs_based_distribution"

Requested(a) == Int2Rat(family_reports[a].requested_amount)

Minimum(a) == Int2Rat(family_reports[a].minimum_acceptable)

TotalRequested == SumRat([a \in Ids(agents) |-> Requested(a)], Ids(agents))

TotalMinimum == SumRat([a \in Ids(agents) |-> Minimum(a)], Ids(agents))

----------------------------------------------------------------------------
(* Claims about the negotiation session (Spec).                             *)

Returned == pc = "returned"

\* C3: when a stage raises, the session returns an allocation with an entry
\* for every agent, each holding pool/n, whose total is the pool.
C3_FallbackTotality ==
    outcome = "fallback"
        => /\ Returned
           /\ DOMAIN result = Ids(agents)
           /\ \A a \in Ids(agents) : result[a] = RDiv(total_grain, Int2Rat(Len(agents)))
           /\ AllocTotal(result) = total_grain

\* C3 witness: the last stage raised after two confirmation rounds, with
\* several agents and a pool that does not divide evenly.
C3_Witness ==
    /\ outcome = "fallback" /\ current_stage = "finalization"
    /\ satisfaction_rounds = 2 /\ Len(stage_results) = 3
    /\ Len(agents) >= 2
    /\ AllocTotal(result) = total_grain /\ ~IsWhole(result[1])

\* C4: every allocation a session returns holds whole amounts only, after
\* Success and after Fallback.
C4_ReturnedAllocationWhole ==
    Returned => \A a \in Ids(agents) : IsWhole(result[a])

StageRank(stage) ==
    IF stage = "principles" THEN 1
    ELSE IF stage = "framework" THEN 2
    ELSE IF stage = "details" THEN 3
    ELSE 4

\* C5: the stage only moves forward: a stage that is entered comes after
\* every stage entered before, and nothing is entered after the outcome.
C5_StagesMoveForward ==
    [][/\ StageRank(current_stage') >= StageRank(current_stage)
       /\ stage_trace' # stage_trace
             => /\ stage_trace' = Append(stage_trace, current_stage')
                /\ \A i \in DOMAIN stage_trace :
                      StageRank(stage_trace[i]) < StageRank(current_stage')
       /\ outcome # "none"
             => /\ stage_trace' = stage_trace
                /\ current_stage' = current_stage
                /\ outcome' = outcome
       /\ outcome' # "none" => pc' = "returned"]_vars

\* C5 witness: a session went through the four stages and succeeded.
C5_Witness ==
    /\ stage_trace = <<"principles", "framework", "details", "finalization">>
    /\ outcome = "success" /\ Returned

\* C6: the satisfaction levels are collected at most twice, and twice only
\* when the first round found unsatisfied agents, at most half of the agents.
C6_SecondRoundOnlyForMinority ==
    /\ satisfaction_rounds <= 2
    /\ satisfaction_rounds = 2
          => /\ unsatisfied # {}
             /\ 2 * Cardinality(unsatisfied) <= Len(agents)

\* C6 witness: a second round ran for exactly half of the agents.
C6_Witness ==
    /\ satisfaction_rounds = 2 /\ outcome = "success"
    /\ 2 * Cardinality(unsatisfied) = Len(agents)

\* the Principles stage has just returned its principle set
PrinciplesReturned == pc = "negotiate_framework" /\ principle_preferences # << >>

\* C13: a principle adopted in the first pass is supported by strictly more
\* than half of the agents, each agent counted once however often its ranked
\* preferences normalise to that principle.
C13_CommonNeedsAgentMajority ==
    PrinciplesReturned
        => \A name \in DOMAIN principles :
              principles[name] = "common"
                 => 2 * Cardinality(Supporters(principle_preferences, name)) > Len(agents)

\* the principles that were adopted: in the first pass or after persuasion
AdoptedPrinciples == {name \in DOMAIN principles : principles[name] \in {"common", "adopted"}}

\* the Framework stage has returned its framework
FrameworkReturned == framework # << >>

\* the decision table of the specification
TableMethod(principle_set) ==
    IF "needs_first" \in principle_set /\ "protect_vulnerable" \in principle_set
        THEN "needs_first"
    ELSE IF "merit_based" \in principle_set /\ "efficiency" \in principle_set
        THEN "contribution_based"
    ELSE IF "equal" \in principle_set THEN "equality_based"
    ELSE "balanced_hybrid"

\* C14: only adopted principles (supporters + convinced > n/2) belong to the
\* set the Framework stage works from; a principle whose persuasion failed or
\* that had too few supporters has no influence on base_method.
C14_OnlyAdoptedPrinciplesCount ==
    FrameworkReturned
        => /\ framework.based_on_principles = AdoptedPrinciples
           /\ framework.base_method = TableMethod(AdoptedPrinciples)

\* C15: base_method is the decision table applied to the principle set the
\* Framework stage received, and depends on nothing else.
C15_DecisionTable ==
    FrameworkReturned => framework.base_method = TableMethod(DOMAIN principles)

\* C15 witness: the set holds equal, merit_based and efficiency, and the
\* earlier row of the table decided: contribution_based.
C15_Witness ==
    /\ FrameworkReturned
    /\ {"equal", "merit_based", "efficiency"} \subseteq DOMAIN principles
    /\ framework.base_method = "contribution_based"

\* C16: the ratios of the framework sum to 1, with or without a bump.
C16_RatiosSumToOne ==
    FrameworkReturned
        => SumRat(framework.ratios, DOMAIN framework.ratios) = Int2Rat(1)

\* C16 witness: a majority asked for the survival bump, it was applied to
\* ratios whose survival share was below one half, and they were renormalised.
C16_Witness ==
    /\ FrameworkReturned
    /\ RLt(RatioGet(get_base_ratios(framework.base_method), "survival_guarantee"), Rat(5, 10))
    /\ framework.ratios # get_base_ratios(framework.base_method)
    /\ SumRat(framework.ratios, DOMAIN framework.ratios) = Int2Rat(1)

\* at most n preference calls, 2 persuasion calls, n opinion calls and 2n
\* confirmation calls
MaxOracleCalls == 4 * Len(agents) + 2

avg_satisfaction ==
    IF final_average_satisfaction = << >> THEN Zero ELSE final_average_satisfaction[1]

\* C19: a session that ends in Success reports the mean satisfaction level
\* of the last satisfaction round that was run, in every branch of the
\* finalization.
C19_ReportedSatisfactionIsLastRound ==
    (Returned /\ outcome = "success") => avg_satisfaction = last_feedback_mean

DetailsReturned == detailed_proposal # << >>

\* the allocation the survival-floor step of the Details stage left
AfterSurvivalStep == InitialAllocation(total_grain, agents, survival_needs, framework)

\* C21: after the survival-floor step of the Details stage, an agent is
\* still below its survival need only if no other agent holds more than its
\* own survival need.
C21_DeficitClosedOrDonorsExhausted ==
    DetailsReturned =>
        \A a \in Ids(agents) :
            RLt(AfterSurvivalStep[a], NeedOf(survival_needs, a)) =>
                \A b \in Ids(agents) \ {a} :
                    RLe(AfterSurvivalStep[b], NeedOf(survival_needs, b))

\* C22: when the pool is at least the sum of the survival needs, the
\* allocation the Details stage returns gives every agent at least its
\* survival need.
C22_DetailsKeepsSurvivalFloor ==
    (DetailsReturned /\ RLe(TotalSurvivalNeeds(survival_needs), total_grain)) =>
        \A a \in Ids(agents) : RLe(NeedOf(survival_needs, a), detailed_proposal[a])

\* C23: the allocation the Details stage returns sums to the pool within
\* 0.01, whatever the base method, the ratios and the agents' opinions.
C23_DetailsSumsToPool ==
    DetailsReturned =>
        RLe(RAbs(RSub(AllocTotal(detailed_proposal), total_grain)), Rat(1, 100))

\* the stage returned an allocation although the allocation of the
\* survival-floor step was off the pool by more than 0.01
C23_Witness ==
    /\ DetailsReturned
    /\ RLt(Rat(1, 100), RAbs(RSub(AllocTotal(AfterSurvivalStep), total_grain)))
    /\ AllocTotal(detailed_proposal) = total_grain

Mediated == called = "negotiate_disputed_allocations"

\* what the mediation added to the allocations of the disputing agents
Credited ==
    SumRat([a \in Disputing(allocation_opinions) |->
                RSub(result[a], distribution_result[a])], Disputing(allocation_opinions))

\* what the mediation took from the allocations of the other agents
Deducted ==
    SumRat([a \in Ids(agents) \ Disputing(allocation_opinions) |->
                RSub(distribution_result[a], result[a])],
           Ids(agents) \ Disputing(allocation_opinions))

\* surplus of an agent over its survival need before the mediation
SurplusBefore(a) == RSub(distribution_result[a], NeedOf(survival_needs, a))

\* the agents the mediation took from
MediationDonors == {a \in Ids(agents) : RLt(result[a], distribution_result[a])}

\* C24: the mediation credits the disputing agents with exactly what it
\* deducts from the donors; that amount is at most 10% of the pool and at
\* most 30% of the donors' total surplus; only non-disputing agents with a
\* surplus above 1 are deducted.
C24_MediationBalancedAndCapped ==
    Mediated =>
        /\ Credited = Deducted
        /\ RLe(Deducted, RMul(total_grain, Rat(1, 10)))
        /\ RLe(Deducted,
               RMul(SumRat([a \in MediationDonors |-> SurplusBefore(a)], MediationDonors),
                    Rat(3, 10)))
        /\ \A a \in MediationDonors :
              a \notin Disputing(allocation_opinions) /\ RLt(Int2Rat(1), SurplusBefore(a))

MajorityUnsatisfied == Cardinality(unsatisfied) > Len(agents) \div 2

\* C25: when more than half of the agents are unsatisfied in the first
\* satisfaction round, the finalization runs no second round, hands the
\* allocation of the Details stage unchanged to the integerization and
\* flags the conflict.
C25_MajorityDissentLeavesAllocation ==
    (Returned /\ outcome = "success" /\ MajorityUnsatisfied) =>
        /\ satisfaction_rounds = 1
        /\ distribution_result = detailed_proposal
        /\ conflict_flagged

\* a session succeeded with a majority unsatisfied although one household
\* held more than 1.1 times the average
C25_Witness ==
    /\ Returned /\ outcome = "success" /\ MajorityUnsatisfied
    /\ conflict_flagged
    /\ \E a \in Ids(agents) :
          RLt(RMul(RDiv(total_grain, Int2Rat(Len(agents))), Rat(11, 10)), detailed_proposal[a])

\* the finalization collected at least one adjustment proposal
Redistributed == Returned /\ outcome = "success" /\ DOMAIN adjustment_proposals # {}

\* the agents the finalization took from
FinalizationDonors == {a \in Ids(agents) : RLt(distribution_result[a], detailed_proposal[a])}

\* the non-proposing agents above 1.1 times the community average
AboveAverage ==
    {a \in Ids(agents) \ DOMAIN adjustment_proposals :
        RLt(RMul(RDiv(total_grain, Int2Rat(Len(agents))), Rat(11, 10)), detailed_proposal[a])}

FinalizationDeducted ==
    SumRat([a \in FinalizationDonors |-> RSub(detailed_proposal[a], distribution_result[a])],
           FinalizationDonors)

FinalizationCredited ==
    SumRat([a \in DOMAIN adjustment_proposals |->
                RSub(distribution_result[a], detailed_proposal[a])],
           DOMAIN adjustment_proposals)

RequestedIncrease ==
    SumRat([a \in DOMAIN adjustment_proposals |->
                RMax(Zero, RSub(adjustment_proposals[a].target_amount,
                                adjustment_proposals[a].current_amount))],
           DOMAIN adjustment_proposals)

\* C26: the redistribution of the finalization deducts only from
\* non-proposing agents above 1.1 times the community average, credits the
\* proposers with exactly what it deducts, moves at most the requested
\* increase and at most half of the donors' surplus over the average, and
\* every proposal's target lies within 20% of the proposer's allocation.
C26_FinalizationBalancedAndBounded ==
    Redistributed =>
        /\ FinalizationDonors \subseteq AboveAverage
        /\ FinalizationCredited = FinalizationDeducted
        /\ RLe(FinalizationDeducted, RequestedIncrease)
        /\ RLe(FinalizationDeducted,
               RMul(SumRat([a \in AboveAverage |->
                               RSub(detailed_proposal[a],
                                    RDiv(total_grain, Int2Rat(Len(agents))))], AboveAverage),
                    Rat(1, 2)))
        /\ \A a \in DOMAIN adjustment_proposals :
              /\ adjustment_proposals[a].current_amount = detailed_proposal[a]
              /\ RLe(RAbs(RSub(adjustment_proposals[a].target_amount, detailed_proposal[a])),
                     RMul(detailed_proposal[a], Rat(2, 10)))
        /\ \A a \in Ids(agents) \ (FinalizationDonors \cup DOMAIN adjustment_proposals) :
              distribution_result[a] = detailed_proposal[a]

\* a redistribution that moved grain to a proposer whose stated target was
\* beyond the 20% it was clamped to
C26_Witness ==
    /\ Redistributed
    /\ RLt(Zero, FinalizationDeducted)
    /\ \E a \in DOMAIN adjustment_proposals :
          adjustment_proposals[a].target_amount = RMul(detailed_proposal[a], Rat(12, 10))

\* the principles that had an advocate: discussed ones with two supporters
Advocated ==
    {name \in DOMAIN principles : principles[name] \in {"adopted", "rejected"}}

\* C27: what a persuasion round decides does not depend on the text the
\* oracle returned or on the call failing: the principles of the stage are
\* those of the same preferences without any text, and a discussed principle
\* is adopted exactly when its supporters together with the non-supporters
\* whose value type the alignment table matches reach the majority.
C27_PersuasionTextIrrelevant ==
    PrinciplesReturned =>
        /\ principles = establish_principles(agents, principle_preferences, << >>)
        /\ \A name \in Advocated :
              principles[name] = "adopted" <=>
                  Cardinality(Supporters(principle_preferences, name))
                    + Cardinality({a \in Ids(agents) \ Supporters(principle_preferences, name) :
                                      Aligned(name, agents[a].value_type)})
                      >= Threshold(Len(agents))

\* a persuasion round whose call succeeded, after which the principle was
\* adopted
C27_Witness ==
    /\ PrinciplesReturned
    /\ oracle_failures = 0
    /\ oracle_calls > Len(agents)
    /\ \E name \in Advocated : principles[name] = "adopted"

\* the agents that ask for the survival-ratio bump on the base ratios
AskingForSurvivalBump ==
    {a \in Ids(agents) :
        get_ratio_adjustment_suggestion(agents[a], get_base_ratios(framework.base_method))
            = "raise_survival_guarantee_to_50"}

\* C28: the framework's ratios differ from the base ratios only when more
\* than half of the agents ask for the survival-ratio bump, and when they do
\* the framework's survival_guarantee ratio is at least 0.5.
C28_SurvivalBumpReachesHalf ==
    FrameworkReturned =>
        /\ framework.ratios # get_base_ratios(framework.base_method)
              => Cardinality(AskingForSurvivalBump) > Len(agents) \div 2
        /\ Cardinality(AskingForSurvivalBump) > Len(agents) \div 2
              => RLe(Rat(5, 10), framework.ratios["survival_guarantee"])

\* the fractional part of the amount handed to the integerization
FracOf(a) == RSub(distribution_result[a], Int2Rat(Floor(distribution_result[a])))

RoundedUp(a) == result[a] = Int2Rat(Floor(distribution_result[a]) + 1)

RoundedDown(a) == result[a] = Int2Rat(Floor(distribution_result[a]))

\* C29: without the survival floor every output is floor(value) or
\* floor(value) + 1, the outputs sum to round(sum of the values), and no
\* agent that is rounded up has a smaller fractional part than an agent that
\* is rounded down.
C29_LargestRemainder ==
    (Integerized /\ ~enforce_min_survival) =>
        /\ \A a \in Ids(agents) : RoundedUp(a) \/ RoundedDown(a)
        /\ ResultTotal = Int2Rat(TargetTotal)
        /\ \A a, b \in Ids(agents) :
              (RoundedUp(a) /\ RoundedDown(b)) => RLe(FracOf(b), FracOf(a))

\* the later agent of the list was rounded up and an earlier one, with a
\* smaller but positive fractional part, was rounded down
C29_Witness ==
    /\ Integerized /\ ~enforce_min_survival
    /\ \E a, b \in Ids(agents) :
          /\ a < b
          /\ RoundedDown(a) /\ RoundedUp(b)
          /\ RLt(Zero, FracOf(a)) /\ RLt(FracOf(a), FracOf(b))

\* the runs that were carried out (an unknown method returns an empty result)
Runs == {k \in 1 .. Len(distribution_results) : distribution_results[k] # << >>}
RunBefore(k) == {j \in Runs : j < k}
ProducedIn(k) ==
    SumRat([a \in Ids(agents) |-> distribution_results[k].productions[a][1]], Ids(agents))
LastRun == CHOOSE k \in Runs : \A j \in Runs : j <= k

\* C30: across any sequence of single-round runs, the pool the next run uses
\* is the sum of the household productions of the run just finished and
\* nothing else, and the over-use warning is set exactly when the new total
\* is below 0.9 times the total the finished run used.
C30_PoolIsLastProduction ==
    /\ \A k \in Runs :
          /\ distribution_results[k].next_resources = ProducedIn(k)
          /\ \A j \in Runs :
                (j < k /\ RunBefore(k) \subseteq 1 .. j) =>
                    distribution_results[k].resources = distribution_results[j].next_resources
    /\ Runs # {} =>
          /\ total_grain = ProducedIn(LastRun)
          /\ overuse_warning =
                RLt(distribution_results[LastRun].next_resources,
                    RMul(Rat(9, 10), distribution_results[LastRun].resources))

C30_Witness ==
    /\ Runs = {1, 2}
    /\ RLt(distribution_results[1].next_resources,
           RMul(Rat(9, 10), distribution_results[1].resources))
    /\ ~overuse_warning
    /\ distribution_results[2].resources # distribution_results[1].resources

====
